---- MODULE Spec2Model ----
(***************************************************************************)
(* BrainForge front-end: the quiz page (QuizPage), the quiz normalizers    *)
(* of the course context and of the page, the course normalizer            *)
(* (extractCourseData), the course store (fetchCourses, getCourseById) of  *)
(* the course context, the API service, and the flashcards page.           *)
(*                                                                         *)
(* Conventions                                                             *)
(*  - a JavaScript string is a sequence of one-character strings, so that  *)
(*    toUpperCase() and trim() are computed and not assumed;               *)
(*  - an optional value (undefined / null / a missing field) is a sequence *)
(*    of length 0 or 1: <<>> is "absent", <<v>> is "present with value v"; *)
(*  - arrays are sequences, positions are 0-based as in the source and     *)
(*    shifted by one when a sequence is indexed;                           *)
(*  - display-only text fields (question text, options, explanation,       *)
(*    titles) are carried through unchanged by the code and are left out.  *)
(***************************************************************************)
EXTENDS Integers, Sequences, FiniteSets, TLC

VARIABLES
    \* ---- QuizPage component state (src/unnamed/part_002, lines 28-38)
    quiz,             \* useState(null): <<>> or <<Quiz>>
    currentQuestion,  \* useState(0)
    selectedAnswer,   \* useState(null): <<>> or <<string>>
    answers,          \* useState([]): sparse array, a hole is <<>>
    timeLeft,         \* useState(600)
    quizCompleted,    \* useState(false)
    loading,          \* useState(true)
    showExplanation,  \* useState(false)
    error,            \* useState('')
    \* ---- the page's asynchronous environment
    inflight,         \* number of fetchQuizData calls awaiting getQuizData
    fetches,          \* number of fetchQuizData calls started so far
    lastOp,           \* the handler / effect that ran last (history)
    \* ---- pure-function harnesses
    rawQuestion,      \* input of the quiz normalizers
    normQuestion,     \* <<>> or <<their output>>
    rawCourse,        \* input of extractCourseData
    normCourse,       \* <<>> (not run yet) or <<result>>
    \* ---- CourseProvider state (CourseContext.jsx, lines 15-18)
    courses,          \* useState([])
    storeLoading,     \* useState(false), `loading` of the provider
    storeError,       \* useState(''), `error` of the provider
    calls,            \* the fetchCourses calls started so far, in start order
    \* ---- one call into the API service or into getCourseById
    apiCall,          \* <<>> or <<the call: its arguments, what fetch does>>
    apiResult,        \* <<>> or <<how the call ended>>
    \* ---- FlashcardsPage component state (SettingsPage.jsx, lines 65-71)
    flashcards,       \* useState([])
    currentCard,      \* useState(0)
    isFlipped,        \* useState(false)
    studiedCards,     \* useState(new Set())
    studyMode,        \* useState('all')
    cardsLoading,     \* useState(true), `loading` of the page
    localStorage,     \* the keys studied_{courseId} and difficult_{courseId}
    cardOp,           \* the handler / effect of the page that ran last
    cardBefore,       \* currentCard before it ran (history)
    \* ---- one call of a quiz-building operation
    quizSource,       \* its arguments: a course and the route's moduleNumber
    builtQuiz,        \* <<>> or <<the operation that ran, the Quiz it built>>
    \* ---- CourseViewer (UploadPage.jsx, lines 556-1420)
    viewer,           \* its state: course, activeModule, loading, progress
    progressStore,    \* localStorage, the key progress_{courseId}
    \* ---- UploadPage (UploadPage.jsx, lines 15-525)
    upload            \* its state, its progress timers, its pending upload

pageVars == <<quiz, currentQuestion, selectedAnswer, answers, timeLeft,
              quizCompleted, loading, showExplanation, error,
              inflight, fetches, lastOp>>
questionVars == <<rawQuestion, normQuestion>>
courseVars == <<rawCourse, normCourse>>
storeVars == <<courses, storeLoading, storeError, calls>>
apiVars == <<apiCall, apiResult>>
cardVars == <<flashcards, currentCard, isFlipped, studiedCards, studyMode,
              cardsLoading, localStorage, cardOp, cardBefore>>
quizVars == <<quizSource, builtQuiz>>
\* the state of the components modelled after the flashcards page
viewerVars == <<viewer, progressStore>>
uploadVars == <<upload>>
restVars == <<quizVars, viewerVars, uploadVars>>
vars == <<quiz, currentQuestion, selectedAnswer, answers, timeLeft,
          quizCompleted, loading, showExplanation, error,
          inflight, fetches, lastOp,
          rawQuestion, normQuestion, rawCourse, normCourse,
          courses, storeLoading, storeError, calls,
          apiCall, apiResult,
          flashcards, currentCard, isFlipped, studiedCards, studyMode,
          cardsLoading, localStorage, cardOp, cardBefore,
          quizSource, builtQuiz,
          viewer, progressStore,
          upload>>

(***************************************************************************)
(* Bounds                                                                  *)
(***************************************************************************)
\* 600 s in the source (useState(600), timeLimit defaults), scaled down
DefaultTimeLimit == 3
\* 1200 s in the source (comprehensive quiz), scaled down, kept larger
ComprehensiveTimeLimit == 4
\* fetchQuizData runs on mount and again whenever its effect's dependencies
\* change; at most this many runs are explored
MaxFetches == 2
\* longest raw answer string fed to the quiz normalizers
MaxStrLen == 3
\* longest modules list of a raw course payload
MaxModules == 2
\* longest flashcards list of a raw course payload
MaxCards == 1
\* fetchCourses runs on mount and on every refreshCourses; at most this many
\* calls are explored
MaxCalls == 2
\* largest deck of flashcards, and largest card id
MaxDeck == 2

(***************************************************************************)
(* JavaScript values                                                       *)
(***************************************************************************)
None == <<>>
Some(v) == <<v>>

\* a string is truthy iff it is present and not ''
TruthyS(o) == o # <<>> /\ o[1] # <<>>
\* a number is truthy iff it is present and not 0
TruthyN(o) == o # <<>> /\ o[1] # 0
\* an array or object is truthy iff it is present
TruthyO(o) == o # <<>>

Sum(f, S) ==
    LET RECURSIVE SumOver(_)
        SumOver(T) == IF T = {} THEN 0
                      ELSE LET x == CHOOSE y \in T : TRUE
                           IN f[x] + SumOver(T \ {x})
    IN SumOver(S)

\* String.prototype.toUpperCase on the model's alphabet
UpperChar(c) ==
    CASE c = "a" -> "A"
      [] c = "b" -> "B"
      [] c = "c" -> "C"
      [] c = "d" -> "D"
      [] c = "e" -> "E"
      [] OTHER -> c
toUpperCase(s) == [i \in 1..Len(s) |-> UpperChar(s[i])]

\* String.prototype.trim: drops leading and trailing white space
RECURSIVE trimStart(_)
trimStart(s) == IF s # <<>> /\ s[1] = " " THEN trimStart(Tail(s)) ELSE s
RECURSIVE trimEnd(_)
trimEnd(s) == IF s # <<>> /\ s[Len(s)] = " "
              THEN trimEnd(SubSeq(s, 1, Len(s) - 1)) ELSE s
trim(s) == trimEnd(trimStart(s))

\* array[i] = v on a copy of the array: a write beyond the end pads with holes
ArraySet(arr, i, v) ==
    [k \in 1..(IF i + 1 > Len(arr) THEN i + 1 ELSE Len(arr)) |->
        IF k = i + 1 THEN Some(v)
        ELSE IF k <= Len(arr) THEN arr[k] ELSE None]
\* array[i] read: undefined (None) out of range or on a hole
ArrayGet(arr, i) == IF i >= 0 /\ i + 1 <= Len(arr) THEN arr[i + 1] ELSE None

(***************************************************************************)
(* Quiz data: the context's getQuizData and the page's processQuizData     *)
(***************************************************************************)
A == <<"A">>
B == <<"B">>
C == <<"C">>
D == <<"D">>
\* the letters the page offers as choices: ['A', 'B', 'C', 'D'].map(...)
OptionLetters == {A, B, C, D}

\* a question as the backend sends it; every field may be missing
RawQ(id, snake, camel, points) ==
    [id |-> id, correct_answer |-> snake, correctAnswer |-> camel,
     points |-> points]
\* a question literal of the source: { id, correctAnswer, points }
Q(id, letter, points) == RawQ(Some(id), None, Some(letter), Some(points))

\* getQuizData, the questions of transformedQuiz: one question of the map
TransformQuestion(q, index) ==
    [id |-> IF TruthyN(q.id) THEN q.id[1] ELSE index + 1,
     correctAnswer |-> IF TruthyS(q.correct_answer) THEN q.correct_answer[1]
                       ELSE IF TruthyS(q.correctAnswer) THEN q.correctAnswer[1]
                       ELSE A,
     points |-> IF TruthyN(q.points) THEN q.points[1] ELSE 5]

\* a question in the canonical shape read as an object by processQuizData:
\* it has no correct_answer field
AsObject(q) == RawQ(Some(q.id), None, Some(q.correctAnswer), Some(q.points))

\* ProcessQuestion without the trim
ProcessQuestionNoTrim(question, index) ==
    [id |-> IF TruthyN(question.id) THEN question.id[1] ELSE index + 1,
     correctAnswer |->
         toUpperCase(IF TruthyS(question.correct_answer)
                     THEN question.correct_answer[1]
                     ELSE IF TruthyS(question.correctAnswer)
                     THEN question.correctAnswer[1]
                     ELSE A),
     points |-> IF TruthyN(question.points) THEN question.points[1] ELSE 5]

\* processQuizData, one question of the map (lines 98-117)
ProcessQuestion(question, index) ==
    [id |-> IF TruthyN(question.id) THEN question.id[1] ELSE index + 1,
     correctAnswer |->
         trim(toUpperCase(IF TruthyS(question.correct_answer)
                          THEN question.correct_answer[1]
                          ELSE IF TruthyS(question.correctAnswer)
                          THEN question.correctAnswer[1]
                          ELSE A)),
     points |-> IF TruthyN(question.points) THEN question.points[1] ELSE 5]

\* processQuizData: quizData.questions is always an array where it is called
processQuizData(quizData) ==
    [quizData EXCEPT
        !.questions = [i \in 1..Len(quizData.questions) |->
                          ProcessQuestion(AsObject(quizData.questions[i]),
                                          i - 1)],
        !.totalQuestions = Len(quizData.questions)]

\* the context's moduleSpecificQuestions
ContextFallbackQuestions(n) ==
    IF n = "2" THEN <<Q(1, A, 10)>> ELSE <<Q(1, A, 5), Q(2, A, 5)>>

\* parseInt on a route parameter; NaN is never === a module_number
\* (<<>> stands for NaN)
parseInt(str) ==
    CASE str = "1" -> Some(1)
      [] str = "2" -> Some(2)
      [] str = "3" -> Some(3)
      [] OTHER -> None

\* the context's getEnhancedFallbackQuiz(courseId, moduleNumber, course);
\* its questions are literals in the canonical shape
ContextFallbackQuiz(moduleNumber) ==
    LET raw == IF moduleNumber # <<>>
               THEN ContextFallbackQuestions(moduleNumber[1])
               ELSE ContextFallbackQuestions("1") \o ContextFallbackQuestions("2")
        questions == [i \in 1..Len(raw) |->
                         [id |-> raw[i].id[1],
                          correctAnswer |-> raw[i].correctAnswer[1],
                          points |-> raw[i].points[1]]]
    IN [success |-> TRUE,
        quiz |-> Some([totalQuestions |-> Len(questions),
                       timeLimit |-> IF moduleNumber # <<>>
                                     THEN DefaultTimeLimit
                                     ELSE ComprehensiveTimeLimit,
                       questions |-> questions]),
        isFallback |-> TRUE]

RECURSIVE FlatQuestions(_)
\* getQuizData, the comprehensive branch: module.quiz.questions of every
\* module that has a quiz with questions, concatenated
FlatQuestions(modules) ==
    IF modules = <<>> THEN <<>>
    ELSE LET m == Head(modules)
         IN (IF TruthyO(m.quiz) /\ TruthyO(m.quiz[1].questions)
             THEN m.quiz[1].questions[1] ELSE <<>>)
            \o FlatQuestions(Tail(modules))

\* course.modules.find(m => m.module_number === parseInt(moduleNumber))
FindModule(modules, n) ==
    LET hits == {i \in 1..Len(modules) :
                    n # <<>> /\ modules[i].module_number = n[1]}
    IN IF hits = {} THEN None
       ELSE Some(modules[CHOOSE i \in hits : \A j \in hits : i <= j])

\* getQuizData(courseId, moduleNumber), after getCourseById has returned
\* `course` (a course: getCourseById never returns null and never rejects)
getQuizData(course, moduleNumber) ==
    LET module == IF moduleNumber # <<>>
                  THEN FindModule(course.modules, parseInt(moduleNumber[1]))
                  ELSE None
        allQuestions == FlatQuestions(course.modules)
        quizData ==
            IF moduleNumber # <<>>
            THEN IF TruthyO(module) /\ TruthyO(module[1].quiz)
                 THEN module[1].quiz ELSE None
            ELSE IF Len(allQuestions) > 0
                 THEN Some([totalQuestions |-> Some(Len(allQuestions)),
                            questions |-> Some(allQuestions),
                            timeLimit |-> Some(ComprehensiveTimeLimit)])
                 ELSE None
    IN IF ~TruthyO(quizData) THEN ContextFallbackQuiz(moduleNumber)
       ELSE LET qd == quizData[1]
                raw == IF TruthyO(qd.questions) THEN qd.questions[1] ELSE <<>>
            IN [success |-> TRUE,
                quiz |-> Some(
                    [totalQuestions |->
                        IF TruthyN(qd.totalQuestions) THEN qd.totalQuestions[1]
                        ELSE Len(raw),
                     timeLimit |-> IF TruthyN(qd.timeLimit) THEN qd.timeLimit[1]
                                   ELSE DefaultTimeLimit,
                     questions |-> [i \in 1..Len(raw) |->
                                       TransformQuestion(raw[i], i - 1)]]),
                isFallback |-> FALSE]

\* the page's own getEnhancedFallbackQuiz(courseId, moduleNum)
PageFallbackQuiz(moduleNumber) ==
    LET n == IF moduleNumber # <<>> THEN parseInt(moduleNumber[1]) ELSE None
        raw == IF n = Some(2) THEN <<Q(1, A, 5), Q(2, C, 5)>>
               ELSE <<Q(1, B, 5), Q(2, C, 5), Q(3, B, 5), Q(4, B, 5)>>
    IN [totalQuestions |-> Len(raw),
        timeLimit |-> DefaultTimeLimit,
        questions |-> [i \in 1..Len(raw) |->
                          [id |-> raw[i].id[1],
                           correctAnswer |-> raw[i].correctAnswer[1],
                           points |-> raw[i].points[1]]]]

(***************************************************************************)
(* Course context: extractCourseData, the mock course, getCourseById       *)
(***************************************************************************)
\* a display text (a title) is an atom; it is truthy iff present and not ''
TruthyT(o) == o # <<>> /\ o[1] # ""

\* a course payload as it may sit under course_structure.course, under
\* actualCourse, or at the top level of the raw course
Payload(title, modules, cards) ==
    [title |-> title, modules |-> modules, flashcards |-> cards,
     description |-> None, difficulty |-> None, estimated_duration |-> None]
\* the payload with its three other display strings set
WithTexts(payload, description, difficulty, estimated_duration) ==
    [payload EXCEPT !.description = description,
                    !.difficulty = difficulty,
                    !.estimated_duration = estimated_duration]

\* a raw course of the backend: its own (top-level) payload fields, the
\* counts the backend may supply, and the two places of a nested payload
RawCourse(nested, actual, own, modules_count, flashcards_count) ==
    [course_structure |-> nested, actualCourse |-> actual,
     title |-> own.title, modules |-> own.modules,
     flashcards |-> own.flashcards,
     description |-> own.description, difficulty |-> own.difficulty,
     estimated_duration |-> own.estimated_duration,
     modules_count |-> modules_count, flashcards_count |-> flashcards_count]

\* the nested payload looked up without the actualCourse shape
courseStructureOfNoActual(course) ==
    IF TruthyO(course.course_structure)
       /\ TruthyO(course.course_structure[1].course)
    THEN course.course_structure[1].course[1]
    ELSE course

\* course.course_structure?.course || course.actualCourse || course
courseStructureOf(course) ==
    IF TruthyO(course.course_structure)
       /\ TruthyO(course.course_structure[1].course)
    THEN course.course_structure[1].course[1]
    ELSE IF TruthyO(course.actualCourse) THEN course.actualCourse[1]
    ELSE course

\* extractCourseData with the counts always derived from the nested lists
extractCourseDataDerivedCounts(course) ==
    IF ~TruthyO(course) THEN None
    ELSE LET raw == course[1]
             courseStructure == courseStructureOf(raw)
         IN Some(
            [title |-> IF TruthyT(courseStructure.title)
                       THEN courseStructure.title[1]
                       ELSE IF TruthyT(raw.title) THEN raw.title[1]
                       ELSE "Untitled Course",
             description |-> IF TruthyT(courseStructure.description)
                             THEN courseStructure.description[1]
                             ELSE IF TruthyT(raw.description)
                             THEN raw.description[1]
                             ELSE "No description available",
             difficulty |-> IF TruthyT(courseStructure.difficulty)
                            THEN courseStructure.difficulty[1]
                            ELSE IF TruthyT(raw.difficulty)
                            THEN raw.difficulty[1]
                            ELSE "intermediate",
             estimated_duration |->
                 IF TruthyT(courseStructure.estimated_duration)
                 THEN courseStructure.estimated_duration[1]
                 ELSE IF TruthyT(raw.estimated_duration)
                 THEN raw.estimated_duration[1]
                 ELSE "Unknown",
             modules |-> IF TruthyO(courseStructure.modules)
                         THEN courseStructure.modules[1]
                         ELSE IF TruthyO(raw.modules) THEN raw.modules[1]
                         ELSE <<>>,
             flashcards |-> IF TruthyO(courseStructure.flashcards)
                            THEN courseStructure.flashcards[1]
                            ELSE IF TruthyO(raw.flashcards)
                            THEN raw.flashcards[1]
                            ELSE <<>>,
             modules_count |->
                 IF TruthyO(courseStructure.modules)
                 THEN Len(courseStructure.modules[1])
                 ELSE 0,
             flashcards_count |->
                 IF TruthyO(courseStructure.flashcards)
                 THEN Len(courseStructure.flashcards[1])
                 ELSE 0])

\* extractCourseData(course): null for a missing course, else the Course
extractCourseData(course) ==
    IF ~TruthyO(course) THEN None
    ELSE LET raw == course[1]
             courseStructure == courseStructureOf(raw)
         IN Some(
            [title |-> IF TruthyT(courseStructure.title)
                       THEN courseStructure.title[1]
                       ELSE IF TruthyT(raw.title) THEN raw.title[1]
                       ELSE "Untitled Course",
             description |-> IF TruthyT(courseStructure.description)
                             THEN courseStructure.description[1]
                             ELSE IF TruthyT(raw.description)
                             THEN raw.description[1]
                             ELSE "No description available",
             difficulty |-> IF TruthyT(courseStructure.difficulty)
                            THEN courseStructure.difficulty[1]
                            ELSE IF TruthyT(raw.difficulty)
                            THEN raw.difficulty[1]
                            ELSE "intermediate",
             estimated_duration |->
                 IF TruthyT(courseStructure.estimated_duration)
                 THEN courseStructure.estimated_duration[1]
                 ELSE IF TruthyT(raw.estimated_duration)
                 THEN raw.estimated_duration[1]
                 ELSE "Unknown",
             modules |-> IF TruthyO(courseStructure.modules)
                         THEN courseStructure.modules[1]
                         ELSE IF TruthyO(raw.modules) THEN raw.modules[1]
                         ELSE <<>>,
             flashcards |-> IF TruthyO(courseStructure.flashcards)
                            THEN courseStructure.flashcards[1]
                            ELSE IF TruthyO(raw.flashcards)
                            THEN raw.flashcards[1]
                            ELSE <<>>,
             modules_count |->
                 IF TruthyN(raw.modules_count) THEN raw.modules_count[1]
                 ELSE IF TruthyO(courseStructure.modules)
                 THEN Len(courseStructure.modules[1])
                 ELSE 0,
             flashcards_count |->
                 IF TruthyN(raw.flashcards_count) THEN raw.flashcards_count[1]
                 ELSE IF TruthyO(courseStructure.flashcards)
                 THEN Len(courseStructure.flashcards[1])
                 ELSE 0])

\* a module of a course: its number and its quiz, if it has one
Module(n, quizOpt) == [module_number |-> n, quiz |-> quizOpt]
\* a quiz object of the backend; every field may be missing
RawQuiz(questions, timeLimit, totalQuestions) ==
    [questions |-> questions, timeLimit |-> timeLimit,
     totalQuestions |-> totalQuestions]

\* getMockCourses()[0]: one module with a one-question quiz, one flashcard
MockCourse ==
    [title |-> "Data Communications & Networking",
     modules |-> <<Module(1, Some(RawQuiz(
                     Some(<<RawQ(None, Some(A), None, Some(5))>>),
                     None, None)))>>,
     flashcards |-> <<1>>,
     modules_count |-> 4]

\* getCourseById(courseId) once the request has ended; `response` is <<>>
\* for a mock id, an unsuccessful response or a thrown error, and <<raw>>
\* for a successful response carrying the raw course
getCourseById(response) ==
    IF TruthyO(response) THEN extractCourseData(response)[1] ELSE MockCourse

(***************************************************************************)
(* QuizPage: derived values                                                *)
(***************************************************************************)
\* quiz.questions, [] while no quiz is loaded
Questions == IF quiz # <<>> THEN quiz[1].questions ELSE <<>>

\* getCurrentQuestionData(): null without quiz or beyond the last question
getCurrentQuestionData ==
    IF quiz = <<>> THEN None ELSE ArrayGet([i \in 1..Len(Questions) |->
                                               Some(Questions[i])],
                                           currentQuestion)

\* AnsweredQuestion with the comparison done on the raw strings
AnsweredQuestionRawCompare(q, selected) ==
    LET isCorrect == selected = q.correctAnswer
    IN [questionId |-> q.id,
        selectedAnswer |-> selected,
        isCorrect |-> isCorrect,
        points |-> IF isCorrect THEN q.points ELSE 0,
        correctAnswer |-> q.correctAnswer]

\* the AnsweredQuestion built by handleNextQuestion (lines 289-310) and,
\* with the same text, by handleQuizComplete (lines 338-352)
AnsweredQuestion(q, selected) ==
    LET userAnswer == trim(toUpperCase(selected))
        correctAnswer == trim(toUpperCase(q.correctAnswer))
        isCorrect == userAnswer = correctAnswer
    IN [questionId |-> q.id,
        selectedAnswer |-> selected,
        isCorrect |-> isCorrect,
        points |-> IF isCorrect THEN q.points ELSE 0,
        correctAnswer |-> q.correctAnswer]

\* the percentage truncated instead of rounded
RoundPercentTruncated(x, y) == (100 * x) \div y

\* Math.round(x / y * 100) for y > 0, computed on exact rationals:
\* floor(100 x / y + 1/2)
RoundPercent(x, y) == (200 * x + y) \div (2 * y)

\* calculateScore()
calculateScore ==
    IF quiz = <<>>
    THEN [points |-> 0, maxPoints |-> 0, percentage |-> 0,
          correctAnswers |-> 0, totalQuestions |-> 0]
    ELSE LET totalPoints ==
                 Sum([i \in 1..Len(answers) |->
                         IF answers[i] # <<>> THEN answers[i][1].points ELSE 0],
                     1..Len(answers))
             maxPoints == Sum([i \in 1..Len(Questions) |-> Questions[i].points],
                              1..Len(Questions))
             correctAnswers ==
                 Cardinality({i \in 1..Len(answers) :
                                 answers[i] # <<>> /\ answers[i][1].isCorrect})
         IN [points |-> totalPoints,
             maxPoints |-> maxPoints,
             percentage |-> IF maxPoints > 0
                            THEN RoundPercent(totalPoints, maxPoints) ELSE 0,
             correctAnswers |-> correctAnswers,
             totalQuestions |-> Len(Questions)]

\* which of the page's views the render shows (lines 420, 434, 460, 651)
LoadingView == loading
NotAvailableView == ~loading /\ (quiz = <<>> \/ Len(Questions) = 0)
CompletedView == ~loading /\ Len(Questions) > 0 /\ quizCompleted
QuestionNotAvailableView ==
    ~loading /\ Len(Questions) > 0 /\ ~quizCompleted
    /\ getCurrentQuestionData = <<>>
QuestionView ==
    ~loading /\ Len(Questions) > 0 /\ ~quizCompleted
    /\ getCurrentQuestionData # <<>>

(***************************************************************************)
(* QuizPage: handlers, as relations between the state of the render that   *)
(* created them and the state after their updates are applied              *)
(***************************************************************************)
\* handleAnswerSelect(answer)
handleAnswerSelect(answer) ==
    /\ selectedAnswer' = Some(answer)
    /\ showExplanation' = FALSE
    /\ UNCHANGED <<currentQuestion, answers, quizCompleted>>

\* handleQuizComplete(), line 337: whether it records the pending selection
completeRecords ==
    /\ TruthyS(selectedAnswer)
    /\ ~TruthyO(ArrayGet(answers, currentQuestion))
    /\ TruthyO(getCurrentQuestionData)

\* completedAnswers recording one position too far
completedAnswersOffByOne ==
    IF completeRecords
    THEN ArraySet(answers, currentQuestion + 1,
                  AnsweredQuestion(getCurrentQuestionData[1],
                                   selectedAnswer[1]))
    ELSE answers

\* handleQuizComplete(): the answers it leaves, computed from the render's
\* `answers` (its setAnswers, when it runs, is the last one applied)
completedAnswers ==
    IF completeRecords
    THEN ArraySet(answers, currentQuestion,
                  AnsweredQuestion(getCurrentQuestionData[1],
                                   selectedAnswer[1]))
    ELSE answers

\* handleQuizComplete()
handleQuizComplete ==
    IF quiz = <<>>
    THEN UNCHANGED <<currentQuestion, selectedAnswer, answers,
                     quizCompleted, showExplanation>>
    ELSE /\ answers' = completedAnswers
         /\ quizCompleted' = TRUE
         /\ UNCHANGED <<currentQuestion, selectedAnswer, showExplanation>>

\* handleNextQuestion()
handleNextQuestion ==
    LET q == getCurrentQuestionData
    IN IF TruthyS(selectedAnswer) /\ TruthyO(q)
       THEN LET newAnswers ==
                    ArraySet(answers, currentQuestion,
                             AnsweredQuestion(q[1], selectedAnswer[1]))
            IN IF currentQuestion < Len(Questions) - 1
               THEN /\ answers' = newAnswers
                    /\ currentQuestion' = currentQuestion + 1
                    /\ selectedAnswer' = None
                    /\ showExplanation' = FALSE
                    /\ UNCHANGED quizCompleted
               ELSE \* handleQuizComplete() runs on the same render's state:
                    \* when it calls setAnswers its array replaces newAnswers
                    /\ answers' = IF completeRecords
                                  THEN completedAnswers ELSE newAnswers
                    /\ quizCompleted' = TRUE
                    /\ UNCHANGED <<currentQuestion, selectedAnswer,
                                   showExplanation>>
       ELSE UNCHANGED <<currentQuestion, selectedAnswer, answers,
                        quizCompleted, showExplanation>>

\* handlePreviousQuestion without the restored selection
handlePreviousQuestionNoRestore ==
    IF currentQuestion > 0
    THEN /\ currentQuestion' = currentQuestion - 1
         /\ selectedAnswer' = None
         /\ showExplanation' = FALSE
         /\ UNCHANGED <<answers, quizCompleted>>
    ELSE UNCHANGED <<currentQuestion, selectedAnswer, answers,
                     quizCompleted, showExplanation>>

\* handlePreviousQuestion()
handlePreviousQuestion ==
    IF currentQuestion > 0
    THEN LET prev == ArrayGet(answers, currentQuestion - 1)
         IN /\ currentQuestion' = currentQuestion - 1
            /\ selectedAnswer' = IF TruthyO(prev)
                                    /\ prev[1].selectedAnswer # <<>>
                                 THEN Some(prev[1].selectedAnswer) ELSE None
            /\ showExplanation' = FALSE
            /\ UNCHANGED <<answers, quizCompleted>>
    ELSE UNCHANGED <<currentQuestion, selectedAnswer, answers,
                     quizCompleted, showExplanation>>

(***************************************************************************)
(* QuizPage: inputs                                                        *)
(***************************************************************************)
\* the route's moduleNumber: missing, or a string
ModuleParams == {None, Some("1"), Some("2"), Some("3"), Some("x")}

NoPayload == Payload(None, None, None)
\* a backend course whose module 1 has a two-question quiz with its own time
\* limit, module 2 a quiz without questions, module 3 no quiz
BackendCourseA ==
    RawCourse(None, None,
        Payload(Some("Nets 101"),
                Some(<<Module(1, Some(RawQuiz(
                           Some(<<RawQ(None, Some(<<"b">>), None, Some(10)),
                                  RawQ(Some(7), None, Some(<<"C", " ">>), None)>>),
                           Some(2), None))),
                       Module(2, Some(RawQuiz(Some(<<>>), None, None))),
                       Module(3, None)>>),
                None),
        None, None)
\* a backend course in the nested shape that has no modules
BackendCourseB ==
    RawCourse(Some([course |-> Some(Payload(Some("Empty"), None, None))]),
              None, NoPayload, None, None)
\* what api.getCourse leads to: <<>> is a mock id, an unsuccessful response
\* or a thrown error; <<raw>> a successful response
BackendResponses == {None, Some(BackendCourseA), Some(BackendCourseB)}

\* the answers the page's buttons pass to handleAnswerSelect
UIAnswers == OptionLetters
\* answers a direct caller of handleAnswerSelect may pass
HandlerAnswers == OptionLetters \cup {<<"c">>, <<" ", "b", " ">>}

(***************************************************************************)
(* QuizPage: steps                                                         *)
(***************************************************************************)
harnessVars == <<rawQuestion, normQuestion, rawCourse, normCourse,
                 storeVars, apiVars, cardVars, restVars>>

\* the fetch effect (lines 40-92) runs: fetchQuizData up to its await
FetchStart(maxFetches) ==
    /\ fetches < maxFetches
    /\ fetches' = fetches + 1
    /\ inflight' = inflight + 1
    /\ loading' = TRUE
    /\ error' = ""
    /\ lastOp' = "fetchStart"
    /\ UNCHANGED <<quiz, currentQuestion, selectedAnswer, answers, timeLeft,
                   quizCompleted, showExplanation>>
    /\ UNCHANGED harnessVars

\* fetchQuizData after its await: getQuizData has resolved
FetchDone ==
    /\ inflight > 0
    /\ \E response \in BackendResponses, moduleNumber \in ModuleParams :
          LET quizResponse == getQuizData(getCourseById(response), moduleNumber)
          IN IF quizResponse.success /\ TruthyO(quizResponse.quiz)
             THEN LET processedQuiz == processQuizData(quizResponse.quiz[1])
                  IN /\ quiz' = Some(processedQuiz)
                     /\ timeLeft' = IF processedQuiz.timeLimit # 0
                                    THEN processedQuiz.timeLimit ELSE timeLeft
                     /\ error' = IF quizResponse.isFallback
                                 THEN "Using enhanced sample questions"
                                 ELSE error
             ELSE /\ quiz' = Some(PageFallbackQuiz(moduleNumber))
                  /\ error' = "Real quiz data not available"
                  /\ UNCHANGED timeLeft
    /\ inflight' = inflight - 1
    /\ loading' = FALSE
    /\ lastOp' = "fetchDone"
    /\ UNCHANGED <<currentQuestion, selectedAnswer, answers, quizCompleted,
                   showExplanation, fetches>>
    /\ UNCHANGED harnessVars

pageFrame == UNCHANGED <<quiz, timeLeft, loading, error, inflight, fetches>>

\* a click on one of the four option buttons (line 767)
SelectAnswer ==
    /\ QuestionView
    /\ \E answer \in UIAnswers : handleAnswerSelect(answer)
    /\ lastOp' = "select"
    /\ pageFrame /\ UNCHANGED harnessVars

\* a click on Show Explanation (lines 807-809)
ShowExplanation ==
    /\ QuestionView
    /\ TruthyS(selectedAnswer) /\ ~showExplanation
    /\ showExplanation' = TRUE
    /\ lastOp' = "explain"
    /\ UNCHANGED <<currentQuestion, selectedAnswer, answers, quizCompleted>>
    /\ pageFrame /\ UNCHANGED harnessVars

\* a click on Next Question: rendered before the last question, disabled
\* without a selection (lines 849-852)
NextQuestion ==
    /\ QuestionView
    /\ currentQuestion < Len(Questions) - 1
    /\ TruthyS(selectedAnswer)
    /\ handleNextQuestion
    /\ lastOp' = "next"
    /\ pageFrame /\ UNCHANGED harnessVars

\* a click on Previous: disabled on the first question (lines 836-838)
PreviousQuestion ==
    /\ QuestionView
    /\ currentQuestion # 0
    /\ handlePreviousQuestion
    /\ lastOp' = "prev"
    /\ pageFrame /\ UNCHANGED harnessVars

\* a click on Complete Quiz: rendered on the last question, disabled without
\* a selection (lines 862-865)
CompleteQuiz ==
    /\ QuestionView
    /\ ~(currentQuestion < Len(Questions) - 1)
    /\ TruthyS(selectedAnswer)
    /\ handleQuizComplete
    /\ lastOp' = "complete"
    /\ pageFrame /\ UNCHANGED harnessVars

\* the countdown still running once the quiz is completed
TimerTickWhenCompleted ==
    /\ timeLeft > 0 /\ quiz # <<>>
    /\ timeLeft' = timeLeft - 1
    /\ IF timeLeft - 1 = 0
       THEN handleQuizComplete
       ELSE UNCHANGED <<currentQuestion, selectedAnswer, answers,
                        quizCompleted, showExplanation>>
    /\ lastOp' = "tick"
    /\ UNCHANGED <<quiz, loading, error, inflight, fetches>>
    /\ UNCHANGED harnessVars

\* the countdown without the completion at zero
TimerTickNoComplete ==
    /\ timeLeft > 0 /\ ~quizCompleted /\ quiz # <<>>
    /\ timeLeft' = timeLeft - 1
    /\ lastOp' = "tick"
    /\ UNCHANGED <<currentQuestion, selectedAnswer, answers,
                   quizCompleted, showExplanation>>
    /\ UNCHANGED <<quiz, loading, error, inflight, fetches>>
    /\ UNCHANGED harnessVars

\* the timer effect (lines 262-269): the timeout set while timeLeft > 0 fires
\* and sets timeLeft - 1; the effect of the render that follows, when it sees
\* timeLeft = 0, calls handleQuizComplete before any other event is handled
TimerTick ==
    /\ timeLeft > 0 /\ ~quizCompleted /\ quiz # <<>>
    /\ timeLeft' = timeLeft - 1
    /\ IF timeLeft - 1 = 0
       THEN handleQuizComplete
       ELSE UNCHANGED <<currentQuestion, selectedAnswer, answers,
                        quizCompleted, showExplanation>>
    /\ lastOp' = "tick"
    /\ UNCHANGED <<quiz, loading, error, inflight, fetches>>
    /\ UNCHANGED harnessVars

\* Retake Quiz with the timer always restarted from the default limit
RetakeQuizDefaultTimer ==
    /\ CompletedView
    /\ currentQuestion' = 0
    /\ selectedAnswer' = None
    /\ answers' = <<>>
    /\ timeLeft' = DefaultTimeLimit
    /\ quizCompleted' = FALSE
    /\ lastOp' = "retake"
    /\ UNCHANGED <<quiz, loading, error, inflight, fetches, showExplanation>>
    /\ UNCHANGED harnessVars

\* a click on Retake Quiz in the completed view (lines 539-546)
RetakeQuiz ==
    /\ CompletedView
    /\ currentQuestion' = 0
    /\ selectedAnswer' = None
    /\ answers' = <<>>
    /\ timeLeft' = IF quiz[1].timeLimit # 0 THEN quiz[1].timeLimit
                   ELSE DefaultTimeLimit
    /\ quizCompleted' = FALSE
    /\ lastOp' = "retake"
    /\ UNCHANGED <<quiz, loading, error, inflight, fetches, showExplanation>>
    /\ UNCHANGED harnessVars

\* the handlers called directly, whatever the buttons' disabled state, with
\* any answer string, while the page shows a question
CallAnswerSelect ==
    /\ QuestionView
    /\ \E answer \in HandlerAnswers : handleAnswerSelect(answer)
    /\ lastOp' = "select"
    /\ pageFrame /\ UNCHANGED harnessVars
CallNextQuestion ==
    /\ QuestionView
    /\ handleNextQuestion
    /\ lastOp' = "next"
    /\ pageFrame /\ UNCHANGED harnessVars
CallPreviousQuestion ==
    /\ QuestionView
    /\ handlePreviousQuestion
    /\ lastOp' = "prev"
    /\ pageFrame /\ UNCHANGED harnessVars
CallQuizComplete ==
    /\ QuestionView
    /\ handleQuizComplete
    /\ lastOp' = "complete"
    /\ pageFrame /\ UNCHANGED harnessVars

(***************************************************************************)
(* Specifications of the quiz page                                         *)
(***************************************************************************)
\* CourseProvider after its first render, before its mount effect
StoreIdle ==
    /\ courses = <<>>
    /\ storeLoading = FALSE
    /\ storeError = ""
    /\ calls = <<>>
\* no call into the API service is being followed
ApiIdle == apiCall = None /\ apiResult = None
\* FlashcardsPage after its first render, with nothing persisted
CardsIdle ==
    /\ flashcards = <<>>
    /\ currentCard = 0
    /\ isFlipped = FALSE
    /\ studiedCards = {}
    /\ studyMode = "all"
    /\ cardsLoading = TRUE
    /\ localStorage = [studied |-> None, difficult |-> None]
    /\ cardOp = "mount"
    /\ cardBefore = 0

\* no quiz-building operation is being followed
QuizIdle == quizSource = None /\ builtQuiz = None
\* CourseViewer after its first render (lines 560-563), nothing persisted
ViewerIdle ==
    /\ viewer = [course |-> None, activeModule |-> 0, loading |-> TRUE,
                 progress |-> <<>>, op |-> "mount"]
    /\ progressStore = None
\* UploadPage after its first render (lines 16-32): no file, no upload, no
\* progress timer
UploadIdle ==
    upload = [selectedFile |-> FALSE, uploadProgress |-> 0,
              isUploading |-> FALSE, uploadComplete |-> FALSE, error |-> "",
              interval |-> FALSE, stale |-> 0, pending |-> FALSE,
              attempts |-> 0, failed |-> FALSE, op |-> "mount"]
\* the components modelled after the flashcards page, at rest
RestIdle == QuizIdle /\ ViewerIdle /\ UploadIdle

\* the harness variables of the pure functions, at rest
HarnessIdle ==
    /\ rawQuestion = RawQ(None, None, None, None)
    /\ normQuestion = None
    /\ rawCourse = None
    /\ normCourse = None
    /\ StoreIdle /\ ApiIdle /\ CardsIdle /\ RestIdle

\* QuizPage after its first render (the useState initial values)
PageInit ==
    /\ quiz = None
    /\ currentQuestion = 0
    /\ selectedAnswer = None
    /\ answers = <<>>
    /\ timeLeft = DefaultTimeLimit
    /\ quizCompleted = FALSE
    /\ loading = TRUE
    /\ showExplanation = FALSE
    /\ error = ""
    /\ inflight = 0
    /\ fetches = 0
    /\ lastOp = "mount"

Init == PageInit /\ HarnessIdle

\* the page as the user drives it; the fetch effect may run again while the
\* page stays mounted (its dependencies change)
Next ==
    \/ FetchStart(MaxFetches)
    \/ FetchDone
    \/ SelectAnswer
    \/ ShowExplanation
    \/ NextQuestion
    \/ PreviousQuestion
    \/ CompleteQuiz
    \/ TimerTick
    \/ RetakeQuiz
Spec == Init /\ [][Next]_vars

\* one quiz session: the quiz is loaded once, on mount
NextSession ==
    \/ FetchStart(1)
    \/ FetchDone
    \/ SelectAnswer
    \/ ShowExplanation
    \/ NextQuestion
    \/ PreviousQuestion
    \/ CompleteQuiz
    \/ TimerTick
    \/ RetakeQuiz
SpecSession == Init /\ [][NextSession]_vars

\* one quiz session in which the countdown keeps running: the timeout the
\* timer effect sets (line 264) fires after a second for as long as the
\* effect's condition holds
SpecSessionTimed == Init /\ [][NextSession]_vars /\ WF_vars(TimerTick)

\* one quiz session with the handlers called directly
NextHandler ==
    \/ FetchStart(1)
    \/ FetchDone
    \/ CallAnswerSelect
    \/ ShowExplanation
    \/ CallNextQuestion
    \/ CallPreviousQuestion
    \/ CallQuizComplete
    \/ TimerTick
    \/ RetakeQuiz
SpecHandler == Init /\ [][NextHandler]_vars

(***************************************************************************)
(* The quiz normalizers applied to one raw question                        *)
(***************************************************************************)
\* the characters raw answers are made of
Alphabet == {"b", "D", "e", " "}
\* every string of at most n characters
Strings(n) == UNION {[1..k -> Alphabet] : k \in 0..n}
\* raw questions: correct_answer missing or any string, correctAnswer
\* missing, empty or "c", points missing, 0 or 10
RawQuestions ==
    {RawQ(None, snake, camel, points) :
        snake \in {None} \cup {Some(str) : str \in Strings(MaxStrLen)},
        camel \in {None, Some(<<>>), Some(<<"c">>)},
        points \in {None, Some(0), Some(10)}}

\* the components at rest in their first render
PageIdle == PageInit /\ StoreIdle /\ ApiIdle /\ CardsIdle /\ RestIdle
CourseIdle == rawCourse = None /\ normCourse = None

QuestionInit ==
    /\ rawQuestion \in RawQuestions
    /\ normQuestion = None
    /\ CourseIdle /\ PageIdle

\* getQuizData builds transformedQuiz from the raw question
ContextTransform ==
    /\ normQuestion = None
    /\ normQuestion' = Some([by |-> "getQuizData",
                             question |-> TransformQuestion(rawQuestion, 0)])
    /\ UNCHANGED <<rawQuestion, rawCourse, normCourse>>
    /\ UNCHANGED <<pageVars, storeVars, apiVars, cardVars, restVars>>

\* the page passes the quiz it received through processQuizData
PageProcess ==
    /\ normQuestion # None /\ normQuestion[1].by = "getQuizData"
    /\ normQuestion' =
           Some([by |-> "processQuizData",
                 question |-> ProcessQuestion(
                                  AsObject(normQuestion[1].question), 0)])
    /\ UNCHANGED <<rawQuestion, rawCourse, normCourse>>
    /\ UNCHANGED <<pageVars, storeVars, apiVars, cardVars, restVars>>

NextQuestionNorm == ContextTransform \/ PageProcess
SpecQuestion == QuestionInit /\ [][NextQuestionNorm]_vars

(***************************************************************************)
(* extractCourseData applied to one raw course                             *)
(***************************************************************************)
\* a list of k modules numbered from base + 1, none with a quiz
ModuleList(k, base) == [i \in 1..k |-> Module(base + i, None)]
\* a list of k flashcard ids from base + 1
CardList(k, base) == [i \in 1..k |-> base + i]
\* payloads whose title is one of `titles` and whose lists, when present,
\* hold 0..MaxModules modules and 0..MaxCards flashcards
Payloads(titles, base) ==
    {Payload(t, m, f) :
        t \in titles,
        m \in {None} \cup {Some(ModuleList(k, base)) : k \in 0..MaxModules},
        f \in {None} \cup {Some(CardList(k, base)) : k \in 0..MaxCards}}
\* raw courses: null, or an object with or without course_structure.course
\* and actualCourse, own fields, and counts supplied or not
RawCourses ==
    {None} \cup
    {Some(RawCourse(nested, actual, own, mc, fc)) :
        nested \in {None, Some([course |-> None])}
                   \cup {Some([course |-> Some(pl)]) :
                            pl \in Payloads({None, Some("Nested")}, 0)},
        actual \in {None} \cup {Some(pl) : pl \in Payloads({Some("Actual")}, 10)},
        own \in Payloads({None, Some("Own")}, 20),
        mc \in {None, Some(0), Some(4)},
        fc \in {None, Some(7)}}

CourseInit ==
    /\ rawCourse \in RawCourses
    /\ normCourse = None
    /\ rawQuestion = RawQ(None, None, None, None) /\ normQuestion = None
    /\ PageIdle

\* extractCourseData(rawCourse) is called; normCourse holds what it returns
ExtractCourse ==
    /\ normCourse = None
    /\ normCourse' = Some(extractCourseData(rawCourse))
    /\ UNCHANGED <<rawCourse, rawQuestion, normQuestion>>
    /\ UNCHANGED <<pageVars, storeVars, apiVars, cardVars, restVars>>

NextCourse == ExtractCourse
SpecCourse == CourseInit /\ [][NextCourse]_vars

\* payloads for the field-by-field preference: every display string missing
\* or set (the strings of `empties` also empty), the lists missing, empty
\* or of one element
FieldPayloads(tag, empties, base) ==
    {WithTexts(Payload(t, m, f), d, df, ed) :
        t \in {None, Some(tag)}
               \cup (IF "title" \in empties THEN {Some("")} ELSE {}),
        m \in {None, Some(<<>>), Some(ModuleList(1, base))},
        f \in {None, Some(CardList(1, base))},
        d \in {None, Some(tag)}
               \cup (IF "description" \in empties THEN {Some("")} ELSE {}),
        df \in {None, Some("advanced")},
        ed \in {None, Some("1 hour")}}
\* payloads with all four display strings set or all four missing
UniformPayloads(tag, base) ==
    {WithTexts(Payload(t, m, f), t, t, t) :
        t \in {None, Some(tag)},
        m \in {None, Some(ModuleList(1, base))},
        f \in {None, Some(CardList(1, base))}}
\* raw courses in the three shapes, no counts supplied
FieldCourses ==
    {Some(RawCourse(nested, actual, own, None, None)) :
        nested \in {None, Some([course |-> None])}
                   \cup {Some([course |-> Some(pl)]) :
                            pl \in FieldPayloads("Nested", {"title"}, 0)},
        actual \in {None} \cup {Some(pl) : pl \in UniformPayloads("Actual", 10)},
        own \in FieldPayloads("Own", {"description"}, 20)}

FieldsInit ==
    /\ rawCourse \in FieldCourses
    /\ normCourse = None
    /\ rawQuestion = RawQ(None, None, None, None) /\ normQuestion = None
    /\ PageIdle

SpecCourseFields == FieldsInit /\ [][NextCourse]_vars

(***************************************************************************)
(* API service (services/api.js)                                           *)
(***************************************************************************)
\* how a call ends: it returns a value or it throws an Error
Returned(v) == [kind |-> "returned", value |-> v]
Thrown(message) == [kind |-> "thrown", message |-> message]

\* a JSON body of the backend; every field may be missing
Body(success, errorText, course, courseList) ==
    [success |-> success, error |-> errorText,
     course |-> course, courses |-> courseList]
\* the value the catching methods return (getRecentCourses adds courses: [])
Failure(message, courseList) ==
    Body(Some(FALSE), Some(message), None, courseList)

\* what fetch() and the reading of its response can do
NetworkFailure(message) == [kind |-> "network", message |-> message]
HttpFailure(status) == [kind |-> "http", status |-> status]
BadJson == [kind |-> "json"]
Ok(body) == [kind |-> "ok", body |-> body]

\* `HTTP ${response.status}: ${response.statusText}`
HttpMessage(status) == IF status = 404 THEN "HTTP 404: Not Found"
                       ELSE "HTTP 500: Internal Server Error"
\* `Upload failed: ${response.status} - ${errorText}`
UploadMessage(status) == IF status = 404 THEN "Upload failed: 404 - "
                         ELSE "Upload failed: 500 - "

\* request(endpoint, options), lines 9-40: throws on a rejected fetch (with
\* its own message when the browser's says 'Failed to fetch'), on a non-2xx
\* status and on a body that is not JSON
request(outcome) ==
    CASE outcome.kind = "ok" -> Returned(outcome.body)
      [] outcome.kind = "http" -> Thrown(HttpMessage(outcome.status))
      [] outcome.kind = "json" -> Thrown("Unexpected token < in JSON")
      [] outcome.kind = "network" ->
            IF outcome.message = "Failed to fetch"
            THEN Thrown("Backend server not reachable. Please check if backend is running.")
            ELSE Thrown(outcome.message)

\* getCourseByContentId without its catch
getCourseByContentIdUncaught(outcome) == request(outcome)

\* getRecentCourses(), lines 43-55
getRecentCourses(outcome) ==
    LET response == request(outcome)
    IN IF response.kind = "returned" THEN response
       ELSE Returned(Failure(response.message, Some(<<>>)))
\* getCourse(courseId), lines 57-68
getCourse(outcome) ==
    LET response == request(outcome)
    IN IF response.kind = "returned" THEN response
       ELSE Returned(Failure(response.message, None))
\* getCourseByContentId(contentId), lines 70-81
getCourseByContentId(outcome) ==
    LET response == request(outcome)
    IN IF response.kind = "returned" THEN response
       ELSE Returned(Failure(response.message, None))
\* uploadFile(formData), lines 84-107: its own fetch, every failure rethrown
uploadFile(outcome) ==
    CASE outcome.kind = "ok" -> Returned(outcome.body)
      [] outcome.kind = "http" -> Thrown(UploadMessage(outcome.status))
      [] outcome.kind = "json" -> Thrown("Unexpected token < in JSON")
      [] outcome.kind = "network" -> Thrown(outcome.message)
\* getQuizData(courseId, moduleNumber) of the service, lines 110-145, and
\* getFlashcardsData(courseId), lines 169-192: every exception raised inside,
\* also by a successful body without a course, is caught; of the value they
\* return on success only `success` and `course` are kept
apiGetQuizData(outcome) ==
    LET courseResponse == getCourse(outcome).value
    IN IF courseResponse.success # Some(TRUE)
       THEN Returned(Failure("Course not found", None))
       ELSE IF ~TruthyO(courseResponse.course)
       THEN Returned(Failure("Cannot read properties of undefined", None))
       ELSE Returned(Body(Some(TRUE), None, courseResponse.course, None))
apiGetFlashcardsData(outcome) ==
    LET courseResponse == getCourse(outcome).value
    IN IF courseResponse.success # Some(TRUE)
       THEN Returned(Failure("Course not found", None))
       ELSE IF ~TruthyO(courseResponse.course)
       THEN Returned(Failure("Cannot read properties of undefined", None))
       ELSE Returned(Body(Some(TRUE), None, courseResponse.course, None))
\* saveProgress, getDebugInfo, getDatabaseStats, healthCheck, lines 195-217:
\* `return this.request(...)`
saveProgress(outcome) == request(outcome)
getDebugInfo(outcome) == request(outcome)
getDatabaseStats(outcome) == request(outcome)
healthCheck(outcome) == request(outcome)

(***************************************************************************)
(* Course context: getCourseById with its request, fetchCourses            *)
(***************************************************************************)
\* 'mock_'
MockPrefix == <<"m", "o", "c", "k", "_">>
\* String.prototype.startsWith
startsWith(str, prefix) ==
    Len(str) >= Len(prefix) /\ SubSeq(str, 1, Len(prefix)) = prefix
\* getMockCourses(), lines 326-386
getMockCourses == <<MockCourse>>
\* getMockCourse(courseId), lines 388-390: the mock course of that id, else
\* the first one; there is one mock course
getMockCourse(courseId) == getMockCourses[1]

\* getCourseById asking the backend for mock ids too
getCourseByIdNoBypass(courseId, outcome) ==
    LET response == getCourse(outcome).value
    IN [result |->
           Returned(IF response.success = Some(TRUE) /\ TruthyO(response.course)
                    THEN extractCourseData(response.course)
                    ELSE Some(getMockCourse(courseId))),
        requests |-> 1]

\* getCourseById(courseId), lines 109-139, with the request it may issue:
\* what it returns (null is <<>>) and how many requests it made
getCourseByIdCall(courseId, outcome) ==
    IF startsWith(courseId, MockPrefix)
    THEN [result |-> Returned(Some(getMockCourse(courseId))), requests |-> 0]
    ELSE LET response == getCourse(outcome).value
         IN [result |->
                Returned(IF response.success = Some(TRUE)
                            /\ TruthyO(response.course)
                         THEN extractCourseData(response.course)
                         ELSE Some(getMockCourse(courseId))),
             requests |-> 1]

\* a fetchCourses call: where it is waiting, and once it is done what it
\* stored, the rank of its completion among the calls, and whether the
\* request that decided it met a network failure
Call(stage, result, order, network) ==
    [stage |-> stage, result |-> result, order |-> order, network |-> network]
\* the number of fetchCourses calls that have completed
CallsDone == Cardinality({i \in 1..Len(calls) : calls[i].stage = "done"})

\* fetchCourses up to its first await (lines 51-60)
fetchCoursesStart ==
    /\ storeLoading' = TRUE
    /\ storeError' = ""
    /\ calls' = Append(calls, Call("health", None, 0, FALSE))
    /\ UNCHANGED courses

\* what fetchCourses stores once getRecentCourses has resolved (lines
\* 70-103): the courses, and the error it sets, <<>> when it sets none.
\* A null among response.courses makes the logging loop throw after
\* setCourses, into the outer catch
fetchCoursesStores(response) ==
    IF response.success = Some(TRUE) /\ TruthyO(response.courses)
    THEN LET processedCourses ==
                 [i \in 1..Len(response.courses[1]) |->
                     extractCourseData(response.courses[1][i])]
         IN IF \E i \in 1..Len(processedCourses) : processedCourses[i] = None
            THEN [courses |-> getMockCourses,
                  error |-> Some("Connection failed: Cannot read properties of null")]
            ELSE [courses |-> [i \in 1..Len(processedCourses) |->
                                  processedCourses[i][1]],
                  error |-> None]
    ELSE [courses |-> getMockCourses,
          error |-> Some(IF TruthyT(response.error) THEN response.error[1]
                         ELSE "No courses found")]

(***************************************************************************)
(* One call into the API service or into getCourseById                     *)
(***************************************************************************)
\* everything outside the API harness
notApiVars == <<pageVars, rawQuestion, normQuestion, rawCourse, normCourse,
                storeVars, cardVars, restVars>>

\* the failures of a request
FetchFailures ==
    {NetworkFailure("Failed to fetch"),
     NetworkFailure("NetworkError when attempting to fetch resource."),
     HttpFailure(404), HttpFailure(500), BadJson}
\* JSON bodies of the backend
Bodies ==
    {Body(Some(TRUE), None, Some(c), None) : c \in {BackendCourseA, BackendCourseB}}
    \cup {Body(Some(TRUE), None, None, Some(list)) :
             list \in {<<>>, <<Some(BackendCourseA)>>,
                       <<Some(BackendCourseB), Some(BackendCourseA)>>,
                       <<Some(BackendCourseA), None>>}}
    \cup {Body(Some(TRUE), None, None, None),
          Body(Some(FALSE), Some("Course not found"), None, None),
          Body(Some(FALSE), None, Some(BackendCourseA), None),
          Body(Some(FALSE), Some(""), None, Some(<<Some(BackendCourseA)>>)),
          Body(None, None, None, None)}
FetchOutcomes == FetchFailures \cup {Ok(body) : body \in Bodies}
\* course ids of the route: mock ids and ids of the backend
CourseIds ==
    {<<"m", "o", "c", "k", "_", "1">>,
     <<"m", "o", "c", "k", "_", "7">>,
     <<"m", "o", "c", "k", "_">>,
     <<"m", "o", "c", "k">>,
     <<"M", "o", "c", "k", "_", "1">>,
     <<"6", "5", "f">>,
     <<>>}

ApiInit ==
    /\ apiCall \in {Some([courseId |-> id, outcome |-> o]) :
                       id \in CourseIds, o \in FetchOutcomes}
    /\ apiResult = None
    /\ PageInit /\ StoreIdle /\ CardsIdle /\ RestIdle
    /\ rawQuestion = RawQ(None, None, None, None) /\ normQuestion = None
    /\ CourseIdle

\* method fn is called and ends with `result` after `requests` requests
Ends(fn, result, requests) ==
    /\ apiCall # None /\ apiResult = None
    /\ apiResult' = Some([fn |-> fn, result |-> result, requests |-> requests])
    /\ UNCHANGED apiCall
    /\ UNCHANGED notApiVars

CallGetRecentCourses ==
    Ends("getRecentCourses", getRecentCourses(apiCall[1].outcome), 1)
CallGetCourse ==
    Ends("getCourse", getCourse(apiCall[1].outcome), 1)
CallGetCourseByContentId ==
    Ends("getCourseByContentId", getCourseByContentId(apiCall[1].outcome), 1)
CallUploadFile ==
    Ends("uploadFile", uploadFile(apiCall[1].outcome), 1)
CallApiGetQuizData ==
    Ends("getQuizData", apiGetQuizData(apiCall[1].outcome), 1)
CallApiGetFlashcardsData ==
    Ends("getFlashcardsData", apiGetFlashcardsData(apiCall[1].outcome), 1)
CallSaveProgress ==
    Ends("saveProgress", saveProgress(apiCall[1].outcome), 1)
CallGetDebugInfo ==
    Ends("getDebugInfo", getDebugInfo(apiCall[1].outcome), 1)
CallGetDatabaseStats ==
    Ends("getDatabaseStats", getDatabaseStats(apiCall[1].outcome), 1)
CallHealthCheck ==
    Ends("healthCheck", healthCheck(apiCall[1].outcome), 1)
\* the context's getCourseById(courseId)
CallGetCourseById ==
    LET call == getCourseByIdCall(apiCall[1].courseId, apiCall[1].outcome)
    IN Ends("getCourseById", call.result, call.requests)

NextApi ==
    \/ CallGetRecentCourses
    \/ CallGetCourse
    \/ CallGetCourseByContentId
    \/ CallUploadFile
    \/ CallApiGetQuizData
    \/ CallApiGetFlashcardsData
    \/ CallSaveProgress
    \/ CallGetDebugInfo
    \/ CallGetDatabaseStats
    \/ CallHealthCheck
    \/ CallGetCourseById
SpecApi == ApiInit /\ [][NextApi]_vars

(***************************************************************************)
(* The course store: overlapping fetchCourses calls                        *)
(***************************************************************************)
\* everything outside the course store
notStoreVars == <<pageVars, rawQuestion, normQuestion, rawCourse, normCourse,
                  apiVars, cardVars, restVars>>

\* what the health request can do; the body of a success is not read
HealthOutcomes == FetchFailures \cup {Ok(Body(Some(TRUE), None, None, None))}

\* the mount effect (lines 404-406)
StoreMount ==
    /\ calls = <<>>
    /\ fetchCoursesStart
    /\ UNCHANGED notStoreVars

\* refreshCourses (lines 399-402), at any time after the mount effect
refreshCourses ==
    /\ calls # <<>> /\ Len(calls) < MaxCalls
    /\ fetchCoursesStart
    /\ UNCHANGED notStoreVars

\* api.healthCheck() of a call settles (lines 59-68): on a failure the mock
\* courses are stored and the call returns through `finally`
HealthDone ==
    \E i \in 1..Len(calls), outcome \in HealthOutcomes :
       /\ calls[i].stage = "health"
       /\ IF healthCheck(outcome).kind = "thrown"
          THEN /\ courses' = getMockCourses
               /\ storeLoading' = FALSE
               /\ calls' = [calls EXCEPT ![i] =
                              Call("done", Some(getMockCourses), CallsDone + 1,
                                   outcome.kind = "network")]
          ELSE /\ calls' = [calls EXCEPT ![i].stage = "recent"]
               /\ UNCHANGED <<courses, storeLoading>>
       /\ UNCHANGED storeError
       /\ UNCHANGED notStoreVars

\* the same step when only the call started last may store its result
RecentDoneLatestOnly ==
    \E i \in 1..Len(calls), outcome \in FetchOutcomes :
       LET stores == fetchCoursesStores(getRecentCourses(outcome).value)
       IN /\ calls[i].stage = "recent"
          /\ courses' = IF i = Len(calls) THEN stores.courses ELSE courses
          /\ storeError' = IF stores.error # None /\ i = Len(calls)
                           THEN stores.error[1] ELSE storeError
          /\ storeLoading' = FALSE
          /\ calls' = [calls EXCEPT ![i] =
                         Call("done", Some(stores.courses), CallsDone + 1,
                              outcome.kind = "network")]
          /\ UNCHANGED notStoreVars

\* api.getRecentCourses() of a call settles (lines 70-106)
RecentDone ==
    \E i \in 1..Len(calls), outcome \in FetchOutcomes :
       LET stores == fetchCoursesStores(getRecentCourses(outcome).value)
       IN /\ calls[i].stage = "recent"
          /\ courses' = stores.courses
          /\ storeError' = IF stores.error # None THEN stores.error[1]
                           ELSE storeError
          /\ storeLoading' = FALSE
          /\ calls' = [calls EXCEPT ![i] =
                         Call("done", Some(stores.courses), CallsDone + 1,
                              outcome.kind = "network")]
          /\ UNCHANGED notStoreVars

StoreInit ==
    /\ StoreIdle /\ ApiIdle /\ CardsIdle /\ PageInit /\ RestIdle
    /\ rawQuestion = RawQ(None, None, None, None) /\ normQuestion = None
    /\ CourseIdle

NextStore == StoreMount \/ refreshCourses \/ HealthDone \/ RecentDone
SpecStore == StoreInit /\ [][NextStore]_vars

(***************************************************************************)
(* FlashcardsPage (pages/SettingsPage.jsx, lines 61-551)                   *)
(*                                                                         *)
(* A card is its id; 0 stands for an id that is falsy (0 or missing).      *)
(* A Set of ids and a persisted JSON array of ids are both sets: the page  *)
(* writes arrays of distinct ids and reads them through new Set(...) and   *)
(* includes(...) only.                                                     *)
(***************************************************************************)
Card(id) == [id |-> id]
\* JSON.parse(localStorage.getItem(key)) || []
StoredIds(item) == IF item = None THEN {} ELSE item[1]

\* filteredFlashcards (lines 221-231), recomputed on every render
filteredFlashcards ==
    LET difficultCards == StoredIds(localStorage.difficult)
        Keep(card) ==
            CASE studyMode = "unstudied" -> card.id \notin studiedCards
              [] studyMode = "difficult" -> card.id \in difficultCards
              [] OTHER -> TRUE
    IN SelectSeq(flashcards, Keep)
\* currentFlashcard (line 233): undefined beyond the filtered deck
currentFlashcard ==
    IF currentCard < Len(filteredFlashcards)
    THEN Some(filteredFlashcards[currentCard + 1]) ELSE None
\* filteredFlashcards[currentCard]?.id when it is truthy
currentCardId ==
    IF currentFlashcard # None /\ currentFlashcard[1].id # 0
    THEN Some(currentFlashcard[1].id) ELSE None

\* the updater of nextCard without the modulo
nextIndexUnbounded(prev, length) == prev + 1
\* the updaters of nextCard and prevCard (lines 161, 166)
nextIndex(prev, length) == (prev + 1) % length
prevIndex(prev, length) == (prev - 1 + length) % length

\* nextCard (lines 159-162) and prevCard (lines 164-167)
nextCard ==
    /\ isFlipped' = FALSE
    /\ currentCard' = nextIndex(currentCard, Len(filteredFlashcards))
prevCard ==
    /\ isFlipped' = FALSE
    /\ currentCard' = prevIndex(currentCard, Len(filteredFlashcards))

\* every order of the elements of a sequence
Orders(seq) ==
    {[i \in 1..Len(seq) |-> seq[p[i]]] :
        p \in {q \in [1..Len(seq) -> 1..Len(seq)] :
                  \A i, j \in 1..Len(seq) : i # j => q[i] # q[j]}}
\* shuffleCards (lines 169-174): the filtered deck, in an order that
\* Math.random decides, becomes the deck
shuffleCards ==
    /\ flashcards' \in Orders(filteredFlashcards)
    /\ currentCard' = 0
    /\ isFlipped' = FALSE

\* markAsStudied that forgets the cards studied before
markAsStudiedReplace ==
    IF currentCardId # None
    THEN /\ studiedCards' = {currentCardId[1]}
         /\ localStorage' = [localStorage EXCEPT
                                !.studied = Some({currentCardId[1]})]
    ELSE UNCHANGED <<studiedCards, localStorage>>

\* markAsStudied (lines 176-183)
markAsStudied ==
    IF currentCardId # None
    THEN LET newStudied == studiedCards \cup {currentCardId[1]}
         IN /\ studiedCards' = newStudied
            /\ localStorage' = [localStorage EXCEPT !.studied = Some(newStudied)]
    ELSE UNCHANGED <<studiedCards, localStorage>>

\* markAsDifficult (lines 185-194)
markAsDifficult ==
    IF currentCardId # None
    THEN LET difficultCards == StoredIds(localStorage.difficult)
         IN IF currentCardId[1] \notin difficultCards
            THEN localStorage' =
                     [localStorage EXCEPT
                         !.difficult = Some(difficultCards \cup {currentCardId[1]})]
            ELSE UNCHANGED localStorage
    ELSE UNCHANGED localStorage

\* resetProgress that leaves the difficult cards in place
resetProgressStudiedOnly ==
    /\ studiedCards' = {}
    /\ localStorage' = [localStorage EXCEPT !.studied = None]

\* resetProgress (lines 196-200)
resetProgress ==
    /\ studiedCards' = {}
    /\ localStorage' = [studied |-> None, difficult |-> None]

\* the views of the page
CardsLoadingView == cardsLoading
CardsView == ~cardsLoading

(***************************************************************************)
(* FlashcardsPage: steps                                                   *)
(***************************************************************************)
\* everything outside the flashcards page
notCardVars == <<pageVars, rawQuestion, normQuestion, rawCourse, normCourse,
                 storeVars, apiVars, restVars>>

\* handler / effect op has run
Did(op) == cardOp' = op /\ cardBefore' = currentCard

\* ids of cards: 0 is a falsy id
CardIdSet == 0..MaxDeck
\* ids that can be marked
MarkableIds == CardIdSet \ {0}
\* the decks a course may carry: at most MaxDeck cards of distinct ids; the
\* mock course carries <<Card(1)>>
Decks ==
    UNION {{[i \in 1..k |-> Card(ids[i])] :
               ids \in {s \in [1..k -> CardIdSet] :
                           \A i, j \in 1..k : i # j => s[i] # s[j]}} :
           k \in 0..MaxDeck}
\* what earlier visits may have left in localStorage
StoredSets == {None} \cup {Some(ids) : ids \in SUBSET MarkableIds}

CardsInit ==
    /\ flashcards = <<>>
    /\ currentCard = 0
    /\ isFlipped = FALSE
    /\ studiedCards = {}
    /\ studyMode = "all"
    /\ cardsLoading = TRUE
    /\ localStorage \in [studied : StoredSets, difficult : StoredSets]
    /\ cardOp = "mount"
    /\ cardBefore = 0
    /\ PageInit /\ StoreIdle /\ ApiIdle /\ RestIdle
    /\ rawQuestion = RawQ(None, None, None, None) /\ normQuestion = None
    /\ CourseIdle

\* the fetch effect (lines 73-98) runs, on mount and again when courseId or
\* getCourseById changes: fetchFlashcards up to its await
CardsFetchStart ==
    /\ cardOp # "fetchStart"
    /\ cardsLoading' = TRUE
    /\ Did("fetchStart")
    /\ UNCHANGED <<flashcards, currentCard, isFlipped, studiedCards,
                   studyMode, localStorage>>
    /\ UNCHANGED notCardVars

\* fetchFlashcards after its await: getCourseById has resolved to a course
\* (the backend's or the mock course), whose flashcards become the deck
CardsFetchDone ==
    /\ cardOp = "fetchStart"
    /\ \E courseFlashcards \in Decks : flashcards' = courseFlashcards
    /\ studiedCards' = StoredIds(localStorage.studied)
    /\ cardsLoading' = FALSE
    /\ Did("fetchDone")
    /\ UNCHANGED <<currentCard, isFlipped, studyMode, localStorage>>
    /\ UNCHANGED notCardVars

\* a click on the card (line 343), rendered when there is a current card
Flip ==
    /\ CardsView /\ currentFlashcard # None
    /\ isFlipped' = ~isFlipped
    /\ Did("flip")
    /\ UNCHANGED <<flashcards, currentCard, studiedCards, studyMode,
                   cardsLoading, localStorage>>
    /\ UNCHANGED notCardVars

\* the arrow buttons (lines 446-470), disabled when the filtered deck has
\* at most one card
NextCard ==
    /\ CardsView /\ Len(filteredFlashcards) > 1
    /\ nextCard
    /\ Did("next")
    /\ UNCHANGED <<flashcards, studiedCards, studyMode, cardsLoading,
                   localStorage>>
    /\ UNCHANGED notCardVars
PrevCard ==
    /\ CardsView /\ Len(filteredFlashcards) > 1
    /\ prevCard
    /\ Did("prev")
    /\ UNCHANGED <<flashcards, studiedCards, studyMode, cardsLoading,
                   localStorage>>
    /\ UNCHANGED notCardVars

\* the Shuffle button (lines 455-461)
ShuffleCards ==
    /\ CardsView
    /\ shuffleCards
    /\ Did("shuffle")
    /\ UNCHANGED <<studiedCards, studyMode, cardsLoading, localStorage>>
    /\ UNCHANGED notCardVars

\* the Mark as Studied button (lines 475-486), disabled when the current
\* card is studied
MarkStudied ==
    /\ CardsView
    /\ ~(currentFlashcard # None /\ currentFlashcard[1].id \in studiedCards)
    /\ markAsStudied
    /\ Did("studied")
    /\ UNCHANGED <<flashcards, currentCard, isFlipped, studyMode, cardsLoading>>
    /\ UNCHANGED notCardVars

\* markAsStudied called whatever the state of its button
CallMarkAsStudied ==
    /\ markAsStudied
    /\ Did(IF currentCardId # None /\ currentCardId[1] \in studiedCards
           THEN "studiedAgain" ELSE "studied")
    /\ UNCHANGED <<flashcards, currentCard, isFlipped, studyMode, cardsLoading>>
    /\ UNCHANGED notCardVars

\* the Mark as Difficult button (lines 488-494)
MarkDifficult ==
    /\ CardsView
    /\ markAsDifficult
    /\ Did("difficult")
    /\ UNCHANGED <<flashcards, currentCard, isFlipped, studiedCards,
                   studyMode, cardsLoading>>
    /\ UNCHANGED notCardVars

\* the Reset button (lines 275-281)
ResetProgress ==
    /\ CardsView
    /\ resetProgress
    /\ Did("reset")
    /\ UNCHANGED <<flashcards, currentCard, isFlipped, studyMode, cardsLoading>>
    /\ UNCHANGED notCardVars

\* a study mode button that leaves the pointer where it is
SetStudyModeKeepPointer ==
    /\ CardsView
    /\ \E mode \in {"all", "unstudied", "difficult"} : studyMode' = mode
    /\ isFlipped' = FALSE
    /\ Did("mode")
    /\ UNCHANGED <<flashcards, currentCard, studiedCards, cardsLoading,
                   localStorage>>
    /\ UNCHANGED notCardVars

\* a study mode button (lines 289-310)
SetStudyMode ==
    /\ CardsView
    /\ \E mode \in {"all", "unstudied", "difficult"} : studyMode' = mode
    /\ currentCard' = 0
    /\ isFlipped' = FALSE
    /\ Did("mode")
    /\ UNCHANGED <<flashcards, studiedCards, cardsLoading, localStorage>>
    /\ UNCHANGED notCardVars

\* a click on a card of the grid (lines 514-520): the first card of the
\* filtered deck with that id becomes the current one, if there is one
PickCard ==
    /\ CardsView
    /\ \E index \in 1..Len(flashcards) :
          LET matches == {i \in 1..Len(filteredFlashcards) :
                             filteredFlashcards[i].id = flashcards[index].id}
          IN IF matches # {}
             THEN /\ currentCard' = (CHOOSE i \in matches :
                                        \A j \in matches : i <= j) - 1
                  /\ isFlipped' = FALSE
             ELSE UNCHANGED <<currentCard, isFlipped>>
    /\ Did("pick")
    /\ UNCHANGED <<flashcards, studiedCards, studyMode, cardsLoading,
                   localStorage>>
    /\ UNCHANGED notCardVars

\* the page as the user drives it
NextCards ==
    \/ CardsFetchStart
    \/ CardsFetchDone
    \/ Flip
    \/ NextCard
    \/ PrevCard
    \/ ShuffleCards
    \/ MarkStudied
    \/ MarkDifficult
    \/ ResetProgress
    \/ SetStudyMode
    \/ PickCard
SpecCards == CardsInit /\ [][NextCards]_vars

\* the page with markAsStudied also called directly
NextCardsHandler ==
    \/ CardsFetchStart
    \/ CardsFetchDone
    \/ Flip
    \/ NextCard
    \/ PrevCard
    \/ ShuffleCards
    \/ MarkStudied
    \/ CallMarkAsStudied
    \/ MarkDifficult
    \/ ResetProgress
    \/ SetStudyMode
    \/ PickCard
SpecCardsHandler == CardsInit /\ [][NextCardsHandler]_vars

\* the fetch effect as it runs on mount
CardsMountFetch == cardOp = "mount" /\ CardsFetchStart

\* one visit of the page: the deck is fetched once, on mount
NextCardsVisit ==
    \/ CardsMountFetch
    \/ CardsFetchDone
    \/ Flip
    \/ NextCard
    \/ PrevCard
    \/ ShuffleCards
    \/ MarkStudied
    \/ MarkDifficult
    \/ ResetProgress
    \/ SetStudyMode
    \/ PickCard
SpecCardsVisit == CardsInit /\ [][NextCardsVisit]_vars

(***************************************************************************)
(* FlashcardsPage: the deck it presents for one raw course of the backend  *)
(***************************************************************************)
\* getMockFlashcards() (lines 101-157): the five sample cards, ids 1 to 5
getMockFlashcards == <<Card(1), Card(2), Card(3), Card(4), Card(5)>>

\* courseData.flashcards || getMockFlashcards() (line 82): the flashcards of
\* a normalized course are an array, and an array is truthy
courseFlashcardsOf(courseData) ==
    LET own == Some(courseData.flashcards)
    IN IF TruthyO(own) THEN own[1] ELSE getMockFlashcards

\* the flashcards a payload of the backend may carry: none, or an array
DeckOptions == {None} \cup {Some(deck) : deck \in Decks}
\* raw courses in the three shapes, each payload with or without flashcards
DeckCourses ==
    {Some(RawCourse(nested, actual, Payload(Some("Own"), None, own),
                    None, None)) :
        nested \in {None} \cup {Some([course |-> Some(Payload(None, None, f))]) :
                                  f \in DeckOptions},
        actual \in {None} \cup {Some(Payload(None, None, f)) : f \in DeckOptions},
        own \in DeckOptions}

DeckInit ==
    /\ rawCourse \in DeckCourses
    /\ normCourse = None
    /\ rawQuestion = RawQ(None, None, None, None) /\ normQuestion = None
    /\ PageIdle

\* fetchFlashcards after its await (lines 77-94), when getCourseById has
\* resolved to the normalized raw course of the backend
DeckFetchDone ==
    /\ cardOp = "fetchStart"
    /\ flashcards' = courseFlashcardsOf(getCourseById(rawCourse))
    /\ studiedCards' = StoredIds(localStorage.studied)
    /\ cardsLoading' = FALSE
    /\ Did("fetchDone")
    /\ UNCHANGED <<currentCard, isFlipped, studyMode, localStorage>>
    /\ UNCHANGED notCardVars

NextDeck == CardsFetchStart \/ DeckFetchDone
SpecDeck == DeckInit /\ [][NextDeck]_vars

(***************************************************************************)
(* The quiz-building operations applied to one course                      *)
(***************************************************************************)
\* 10 in the source: createComprehensiveQuiz keeps the first 10 questions
MaxQuizQuestions == 2
\* most questions a module's quiz carries in the inputs
MaxModuleQuestions == 2

\* array.slice(0, n)
slice(arr, n) == SubSeq(arr, 1, IF Len(arr) < n THEN Len(arr) ELSE n)

\* createComprehensiveQuiz(course) of the API service (api.js, lines
\* 147-167): course is the raw course of the backend
createComprehensiveQuiz(course) ==
    LET allQuestions == IF TruthyO(course.modules)
                        THEN FlatQuestions(course.modules[1]) ELSE <<>>
    IN [totalQuestions |-> Len(allQuestions),
        timeLimit |-> DefaultTimeLimit,
        questions |-> slice(allQuestions, MaxQuizQuestions)]

\* everything outside the quiz-building harness
notQuizVars == <<pageVars, rawQuestion, normQuestion, rawCourse, normCourse,
                 storeVars, apiVars, cardVars, viewerVars, uploadVars>>

\* k questions as the backend sends them
QuestionList(k) == [i \in 1..k |-> RawQ(None, Some(A), None, None)]
\* the quizzes a module of the backend may carry: none, or one with up to
\* MaxModuleQuestions questions and a totalQuestions that is missing, 0, the
\* number of its questions or one more
ModuleQuizzes ==
    {None} \cup
    {Some(RawQuiz(Some(QuestionList(k)), None, t)) :
        k \in 0..MaxModuleQuestions,
        t \in {None} \cup {Some(n) : n \in 0..(MaxModuleQuestions + 1)}}
\* the modules lists of a course: up to two modules, numbered from 1
QuizModuleLists ==
    {<<>>}
    \cup {<<Module(1, q)>> : q \in ModuleQuizzes}
    \cup {<<Module(1, q1), Module(2, q2)>> :
             q1 \in ModuleQuizzes, q2 \in ModuleQuizzes}
\* raw courses of the backend: without modules, or with one of the lists
QuizCourses ==
    {RawCourse(None, None, Payload(Some("Quiz"), m, None), None, None) :
        m \in {None} \cup {Some(list) : list \in QuizModuleLists}}

QuizInit ==
    /\ quizSource \in {Some([course |-> c, moduleNumber |-> n]) :
                          c \in QuizCourses, n \in ModuleParams}
    /\ builtQuiz = None
    /\ PageInit /\ StoreIdle /\ ApiIdle /\ CardsIdle /\ ViewerIdle
    /\ UploadIdle
    /\ rawQuestion = RawQ(None, None, None, None) /\ normQuestion = None
    /\ CourseIdle

\* operation `by` has built `built`
Builds(by, built) ==
    /\ quizSource # None
    /\ builtQuiz' = Some([by |-> by, quiz |-> built])
    /\ UNCHANGED quizSource
    /\ UNCHANGED notQuizVars

\* the context's getQuizData on the course getCourseById returns for the
\* raw course (CourseContext.jsx, lines 142-224)
BuildContextQuiz ==
    /\ builtQuiz = None
    /\ Builds("getQuizData",
              getQuizData(extractCourseData(Some(quizSource[1].course))[1],
                          quizSource[1].moduleNumber).quiz[1])
\* the context's fallback builder (CourseContext.jsx, lines 227-304)
BuildContextFallback ==
    /\ builtQuiz = None
    /\ Builds("contextFallback",
              ContextFallbackQuiz(quizSource[1].moduleNumber).quiz[1])
\* the page's fallback builder (part_002, lines 127-260)
BuildPageFallback ==
    /\ builtQuiz = None
    /\ Builds("pageFallback", PageFallbackQuiz(quizSource[1].moduleNumber))
\* createComprehensiveQuiz of the API service on the raw course
BuildComprehensive ==
    /\ builtQuiz = None
    /\ Builds("createComprehensiveQuiz",
              createComprehensiveQuiz(quizSource[1].course))
\* the page's processQuizData on the quiz the context's getQuizData built
BuildProcessed ==
    /\ builtQuiz # None /\ builtQuiz[1].by = "getQuizData"
    /\ Builds("processQuizData", processQuizData(builtQuiz[1].quiz))

NextQuiz ==
    \/ BuildContextQuiz
    \/ BuildContextFallback
    \/ BuildPageFallback
    \/ BuildComprehensive
    \/ BuildProcessed
SpecQuiz == QuizInit /\ [][NextQuiz]_vars

(***************************************************************************)
(* CourseViewer: module progress (UploadPage.jsx, lines 556-1420)          *)
(*                                                                         *)
(* The progress object maps module numbers to percentages; it is a         *)
(* function whose domain is the set of its keys.                           *)
(***************************************************************************)
\* getModules() (lines 622-626) of the course getCourseById returned: a
\* normalized course has neither actualCourse nor course_structure, so
\* getActualCourseData() is the course itself
getModules == IF viewer.course = None THEN <<>>
              ELSE viewer.course[1].modules

\* module.module_number || index + 1 for the module at `index`
moduleNumberAt(index) ==
    IF getModules[index + 1].module_number # 0
    THEN getModules[index + 1].module_number ELSE index + 1

\* getCurrentModule() (lines 661-687), as far as its existence goes
hasCurrentModule == viewer.activeModule < Len(getModules)

\* getModuleProgress(moduleNumber) (lines 649-651)
getModuleProgress(moduleNumber) ==
    IF moduleNumber \in DOMAIN viewer.progress
       /\ viewer.progress[moduleNumber] # 0
    THEN viewer.progress[moduleNumber] ELSE 0

\* getOverallProgress() (lines 653-659)
getOverallProgress ==
    IF Len(getModules) = 0 THEN 0
    ELSE LET totalModules == Len(getModules)
             completedModules ==
                 Cardinality({k \in DOMAIN viewer.progress :
                                 viewer.progress[k] = 100})
         IN RoundPercent(completedModules, totalModules)

\* { ...progress, [moduleNumber]: 100 }
withModuleComplete(progress, moduleNumber) ==
    [k \in DOMAIN progress \cup {moduleNumber} |->
        IF k = moduleNumber THEN 100 ELSE progress[k]]

\* the page shows the course (the returns of lines 756 and 768 not taken)
ViewerView == ~viewer.loading /\ viewer.course # None

\* everything outside the course viewer
notViewerVars == <<pageVars, rawQuestion, normQuestion, rawCourse, normCourse,
                   storeVars, apiVars, cardVars, quizVars, uploadVars>>

\* the progress objects earlier visits may have persisted: every module
\* number marked so far maps to 100
StoredProgress ==
    {None} \cup {Some([k \in done |-> 100]) : done \in SUBSET (1..MaxModules)}
\* the courses getCourseById may resolve to: a course of the backend with
\* up to MaxModules modules numbered from 1 or with no module_number, or
\* the mock course
ViewerCourses ==
    {extractCourseData(Some(RawCourse(None, None,
         Payload(Some("Viewed"), Some(ModuleList(k, 0)), None),
         None, None)))[1] : k \in 0..MaxModules}
    \cup {extractCourseData(Some(RawCourse(None, None,
              Payload(Some("Unnumbered"),
                      Some([i \in 1..MaxModules |-> Module(0, None)]), None),
              None, None)))[1]}
    \cup {MockCourse}

ViewerInit ==
    /\ viewer = [course |-> None, activeModule |-> 0, loading |-> TRUE,
                 progress |-> <<>>, op |-> "mount"]
    /\ progressStore \in StoredProgress
    /\ PageInit /\ StoreIdle /\ ApiIdle /\ CardsIdle /\ QuizIdle
    /\ UploadIdle
    /\ rawQuestion = RawQ(None, None, None, None) /\ normQuestion = None
    /\ CourseIdle

\* the fetch effect (lines 568-596) runs, on mount and again when courseId
\* or getCourseById changes: fetchCourseData up to its await
ViewerFetchStart ==
    /\ viewer.op # "fetchStart"
    /\ viewer' = [viewer EXCEPT !.loading = TRUE, !.op = "fetchStart"]
    /\ UNCHANGED progressStore
    /\ UNCHANGED notViewerVars

\* fetchCourseData after its await: getCourseById has resolved to a course
ViewerFetchDone ==
    /\ viewer.op = "fetchStart"
    /\ \E courseData \in ViewerCourses :
          viewer' = [viewer EXCEPT
                        !.course = Some(courseData),
                        !.progress = IF progressStore # None
                                     THEN progressStore[1] ELSE <<>>,
                        !.loading = FALSE,
                        !.op = "fetchDone"]
    /\ UNCHANGED progressStore
    /\ UNCHANGED notViewerVars

\* a click on a module of the sidebar (line 971)
SelectModule ==
    /\ ViewerView
    /\ \E index \in 0..(Len(getModules) - 1) :
          viewer' = [viewer EXCEPT !.activeModule = index, !.op = "select"]
    /\ UNCHANGED progressStore
    /\ UNCHANGED notViewerVars

\* the Mark Complete button (lines 1108-1120), rendered for a current
\* module that is not complete: markModuleComplete (lines 635-639)
MarkModuleComplete ==
    /\ ViewerView /\ hasCurrentModule
    /\ getModuleProgress(moduleNumberAt(viewer.activeModule)) # 100
    /\ LET newProgress ==
               withModuleComplete(viewer.progress,
                                  moduleNumberAt(viewer.activeModule))
       IN /\ viewer' = [viewer EXCEPT !.progress = newProgress,
                                      !.op = "complete"]
          /\ progressStore' = Some(newProgress)
    /\ UNCHANGED notViewerVars

NextViewer ==
    \/ ViewerFetchStart
    \/ ViewerFetchDone
    \/ SelectModule
    \/ MarkModuleComplete
SpecViewer == ViewerInit /\ [][NextViewer]_vars

(***************************************************************************)
(* UploadPage (pages/UploadPage.jsx, lines 15-525)                         *)
(*                                                                         *)
(* `upload` holds the component state that handleUpload touches            *)
(* (selectedFile as "a file is selected", uploadProgress, isUploading,     *)
(* uploadComplete, error) and the page's asynchronous environment:         *)
(*   interval  the progressInterval of the running handleUpload is set     *)
(*   stale     progressIntervals of ended handleUpload calls still set     *)
(*   pending   handleUpload is awaiting api.uploadFile                     *)
(*   attempts  handleUpload calls started so far                           *)
(*   failed    the last handleUpload call ended in its catch (history)     *)
(*   op        the handler / timer that ran last (history)                 *)
(***************************************************************************)
\* handleUpload calls followed
MaxUploads == 2
\* the callback of setInterval adds 10 up to 90 (lines 110-116)
ProgressStep == 10
ProgressCap == 90

\* everything outside the upload page
notUploadVars == <<pageVars, rawQuestion, normQuestion, rawCourse, normCourse,
                   storeVars, apiVars, cardVars, quizVars, viewerVars>>

\* what the fetch of uploadFile can do: the failures of a request, or a body
UploadOutcomes ==
    FetchFailures
    \cup {Ok(Body(Some(TRUE), None, None, None)),
          Ok(Body(Some(FALSE), Some("Course generation timed out"), None, None)),
          Ok(Body(Some(FALSE), Some(""), None, None)),
          Ok(Body(None, None, None, None))}

UploadInit ==
    /\ UploadIdle
    /\ PageInit /\ StoreIdle /\ ApiIdle /\ CardsIdle /\ QuizIdle /\ ViewerIdle
    /\ rawQuestion = RawQ(None, None, None, None) /\ normQuestion = None
    /\ CourseIdle

\* handleFileSelect(file), lines 65-84: an unsupported or too large file only
\* sets the error
handleFileSelect(accepted) ==
    IF ~accepted
    THEN [upload EXCEPT !.error = "Unsupported file format. Please upload PDF, PPT, images, or text files.",
                        !.op = "select"]
    ELSE [upload EXCEPT !.selectedFile = TRUE, !.uploadComplete = FALSE,
                        !.error = "", !.op = "select"]
FileSelect ==
    /\ \E accepted \in BOOLEAN : upload' = handleFileSelect(accepted)
    /\ UNCHANGED notUploadVars

\* "Choose Different File", line 256: setSelectedFile(null)
ChooseDifferentFile ==
    /\ upload.selectedFile
    /\ upload' = [upload EXCEPT !.selectedFile = FALSE, !.op = "choose"]
    /\ UNCHANGED notUploadVars

\* handleUpload up to its await (lines 93-118); its buttons are disabled
\* while isUploading (lines 263, 480)
UploadStart ==
    /\ upload.selectedFile
    /\ ~upload.isUploading
    /\ upload.attempts < MaxUploads
    /\ upload' = [upload EXCEPT !.isUploading = TRUE, !.error = "",
                                !.uploadProgress = 0, !.interval = TRUE,
                                !.pending = TRUE, !.attempts = @ + 1,
                                !.failed = FALSE, !.op = "start"]
    /\ UNCHANGED notUploadVars

\* one run of the setInterval callback (lines 110-116) of the timer `own`
\* (of the running call) or of a timer an ended call left set
intervalTick(own) ==
    IF upload.uploadProgress >= ProgressCap
    THEN [upload EXCEPT !.uploadProgress = ProgressCap,
                        !.interval = IF own THEN FALSE ELSE @,
                        !.stale = IF own THEN @ ELSE @ - 1,
                        !.op = "tick"]
    ELSE [upload EXCEPT !.uploadProgress = @ + ProgressStep, !.op = "tick"]
ProgressTick ==
    /\ \E own \in BOOLEAN :
          /\ IF own THEN upload.interval ELSE upload.stale > 0
          /\ upload' = intervalTick(own)
    /\ UNCHANGED notUploadVars

\* handleUpload after its await (lines 118-152) when api.uploadFile ended as
\* `response`: clearInterval and 100 are reached only when it returned; the
\* catch sets the error and 0, the finally clears isUploading
uploadSettled(response) ==
    IF response.kind = "thrown"
    THEN [upload EXCEPT
            !.error = IF response.message # "" THEN response.message
                      ELSE "Upload failed. Please try again.",
            !.uploadProgress = 0,
            !.isUploading = FALSE,
            !.interval = FALSE,
            !.stale = IF upload.interval THEN @ + 1 ELSE @,
            !.pending = FALSE, !.failed = TRUE, !.op = "failed"]
    ELSE IF response.value.success = Some(TRUE)
    THEN [upload EXCEPT
            !.uploadProgress = 100,
            !.uploadComplete = TRUE,
            !.isUploading = FALSE,
            !.interval = FALSE,
            !.pending = FALSE, !.op = "done"]
    ELSE [upload EXCEPT
            !.error = IF TruthyT(response.value.error)
                      THEN response.value.error[1]
                      ELSE "Course generation failed",
            !.uploadProgress = 0,
            !.isUploading = FALSE,
            !.interval = FALSE,
            !.pending = FALSE, !.failed = TRUE, !.op = "failed"]
UploadDone ==
    /\ upload.pending
    /\ \E outcome \in UploadOutcomes :
          upload' = uploadSettled(uploadFile(outcome))
    /\ UNCHANGED notUploadVars

NextUpload ==
    \/ FileSelect
    \/ ChooseDifferentFile
    \/ UploadStart
    \/ ProgressTick
    \/ UploadDone
SpecUpload == UploadInit /\ [][NextUpload]_vars

(***************************************************************************)
(* Properties                                                              *)
(***************************************************************************)
\* t is s without its leading and trailing blanks
IsTrimOf(t, s) ==
    \E i, j \in 0..Len(s) :
        /\ i + j <= Len(s)
        /\ t = SubSeq(s, i + 1, Len(s) - j)
        /\ \A k \in 1..i : s[k] = " "
        /\ \A k \in (Len(s) - j + 1)..Len(s) : s[k] = " "
        /\ (t # <<>> => t[1] # " " /\ t[Len(t)] # " ")
        /\ (t = <<>> => i + j = Len(s))
\* s and t are the same string once both are upper-cased and trimmed
SameAnswer(s, t) ==
    \E u \in {SubSeq(toUpperCase(s), a, b) : a \in 1..(Len(s) + 1),
                                             b \in 0..Len(s)} :
        IsTrimOf(u, toUpperCase(s)) /\ IsTrimOf(u, toUpperCase(t))

\* C1: whenever handleNextQuestion runs with a pending selection s on the
\* current question q, the answer it records at q's position has isCorrect
\* true exactly when s and q.correctAnswer are equal after upper-casing and
\* trimming both, and points q.points when correct and 0 otherwise.
C1_AdvanceRecordsAnswer ==
    [][(lastOp' = "next" /\ TruthyS(selectedAnswer)
        /\ TruthyO(getCurrentQuestionData))
       => LET q == getCurrentQuestionData[1]
              recorded == ArrayGet(answers', currentQuestion)
          IN /\ recorded # <<>>
             /\ recorded[1].selectedAnswer = selectedAnswer[1]
             /\ recorded[1].isCorrect
                    = SameAnswer(selectedAnswer[1], q.correctAnswer)
             /\ recorded[1].points
                    = IF SameAnswer(selectedAnswer[1], q.correctAnswer)
                      THEN q.points ELSE 0]_vars
\* an advance has recorded " b " against the correct answer "B" worth 10 as
\* correct with 10 points
C1_Witness ==
    /\ lastOp = "next"
    /\ Len(answers) >= 1 /\ answers[1] # <<>>
    /\ answers[1][1].selectedAnswer = <<" ", "b", " ">>
    /\ answers[1][1].correctAnswer = B
    /\ answers[1][1].isCorrect /\ answers[1][1].points = 10

\* the sum of a sequence of numbers
RECURSIVE SeqSum(_)
SeqSum(sq) == IF sq = <<>> THEN 0 ELSE Head(sq) + SeqSum(Tail(sq))
\* question i (1-based) has a recorded answer that is correct
CorrectAt(i) ==
    i <= Len(answers) /\ answers[i] # <<>> /\ answers[i][1].isCorrect
\* p is x / y * 100 rounded to the nearest integer, halves up (y > 0)
IsRounded(p, x, y) == 2 * p * y <= 200 * x + y /\ 200 * x + y < 2 * (p + 1) * y

C3_TimeoutRecordsPending ==
    (lastOp = "tick" /\ quizCompleted /\ TruthyS(selectedAnswer)
     /\ TruthyO(getCurrentQuestionData))
    => LET recorded == ArrayGet(answers, currentQuestion)
       IN recorded # <<>> /\ recorded[1].selectedAnswer = selectedAnswer[1]

\* C4: every Completed state of a quiz session, reached by completing the
\* last question or by the countdown reaching 0, has recorded answers only
\* at positions of questions: answers.length <= questions.length.
C4_AnswersWithinQuestions ==
    quizCompleted
    => /\ Len(answers) <= Len(Questions)
       /\ \A i \in 1..Len(answers) : answers[i] # <<>> => i <= Len(Questions)
\* the countdown has completed a quiz of two questions, both answered
C4_Witness ==
    /\ quizCompleted /\ lastOp = "tick"
    /\ Len(Questions) = 2 /\ Len(answers) = 2
    /\ answers[1] # <<>> /\ answers[2] # <<>>

\* C5: Retake from Completed resets the session to a fresh attempt on the
\* same quiz: currentQuestion = 0, no pending selection, no recorded
\* answers, timeLeft = the quiz's time limit, quizCompleted = false, so that
\* nothing of the earlier attempt enters the next score.
C5_RetakeResets ==
    [][lastOp' = "retake"
       => /\ quizCompleted /\ ~quizCompleted'
          /\ quiz' = quiz
          /\ currentQuestion' = 0
          /\ selectedAnswer' = None
          /\ answers' = <<>>
          /\ timeLeft' = quiz[1].timeLimit
          /\ calculateScore'.points = 0
          /\ calculateScore'.correctAnswers = 0]_vars
\* a retake of the quiz whose backend-supplied time limit is 2 has just
\* restarted it
C5_Witness ==
    /\ lastOp = "retake" /\ ~quizCompleted
    /\ quiz # <<>> /\ quiz[1].timeLimit = 2 /\ timeLeft = 2
    /\ currentQuestion = 0 /\ answers = <<>> /\ selectedAnswer = None

\* C6: handlePreviousQuestion at currentQuestion i > 0 sets currentQuestion
\* to i - 1 and the pending selection to the answer recorded at i - 1 (none
\* if nothing is recorded there); at 0 it changes nothing; in both cases the
\* recorded answers and timeLeft are unchanged.
C6_GoBack ==
    [][lastOp' = "prev"
       => /\ answers' = answers
          /\ timeLeft' = timeLeft
          /\ IF currentQuestion > 0
             THEN /\ currentQuestion' = currentQuestion - 1
                  /\ LET before == ArrayGet(answers, currentQuestion - 1)
                     IN selectedAnswer' = IF before # <<>>
                                          THEN Some(before[1].selectedAnswer)
                                          ELSE None
             ELSE /\ currentQuestion' = 0
                  /\ selectedAnswer' = selectedAnswer
                  /\ showExplanation' = showExplanation
                  /\ quizCompleted' = quizCompleted
                  /\ quiz' = quiz]_vars
\* going back from the third question to the second has restored the answer
\* "c" recorded there
C6_Witness ==
    /\ lastOp = "prev" /\ currentQuestion = 1
    /\ Len(answers) >= 2 /\ answers[2] # <<>>
    /\ answers[2][1].selectedAnswer = <<"c">>
    /\ selectedAnswer = Some(<<"c">>)

\* C7: after a quiz load finishes, whatever the course, the module and the
\* backend outcome, the page holds a quiz with at least one question and is
\* in progress.
C7_LoadAlwaysGivesQuiz ==
    lastOp = "fetchDone"
    => /\ ~loading /\ ~quizCompleted
       /\ quiz # <<>> /\ Len(Questions) >= 1

\* the raw answer getQuizData and processQuizData read
RawAnswer(q) ==
    IF q.correct_answer # <<>> /\ q.correct_answer[1] # <<>>
    THEN q.correct_answer[1]
    ELSE IF q.correctAnswer # <<>> /\ q.correctAnswer[1] # <<>>
    THEN q.correctAnswer[1]
    ELSE <<"A">>
\* str is one of the letters a-d or A-D with blanks around it
IsPaddedLetter(str) ==
    \E i \in 1..Len(str) :
        /\ str[i] \in {"a", "b", "c", "d", "A", "B", "C", "D"}
        /\ \A k \in 1..Len(str) : k # i => str[k] = " "
\* the question as the page holds it
Normalized == normQuestion # None /\ normQuestion[1].by = "processQuizData"

\* C8 as claimed: for every question of every raw quiz the normalized
\* correctAnswer is exactly one of "A", "B", "C", "D".
C8_AlwaysALetter ==
    Normalized => normQuestion[1].question.correctAnswer \in OptionLetters
\* C8 as amended: the normalized correctAnswer is the raw answer (the first
\* non-empty of correct_answer, correctAnswer, 'A') upper-cased and trimmed;
\* it is one of "A".."D" whenever the raw answer is one of those letters in
\* either case with blanks around it.
C8_UpperTrimmed ==
    Normalized
    => LET str == RawAnswer(rawQuestion)
           out == normQuestion[1].question.correctAnswer
       IN /\ IsTrimOf(out, toUpperCase(str))
          /\ (IsPaddedLetter(str) => out \in OptionLetters)
\* " b " has been normalized to "B"
C8_Witness ==
    /\ Normalized
    /\ rawQuestion.correct_answer = Some(<<" ", "b", " ">>)
    /\ normQuestion[1].question.correctAnswer = B

\* the normalizer has run on rawCourse, an object
Extracted == normCourse # None /\ rawCourse # None
\* no payload of the raw course has a modules list
NoModulesAnywhere ==
    LET raw == rawCourse[1]
    IN /\ raw.modules = None
       /\ (raw.actualCourse # <<>> => raw.actualCourse[1].modules = None)
       /\ (raw.course_structure # <<>>
           => (raw.course_structure[1].course # <<>>
               => raw.course_structure[1].course[1].modules = None))
\* neither the payload the normalizer reads nor the raw course itself has a
\* modules list
NoModulesRead ==
    LET raw == rawCourse[1]
        nested == IF raw.course_structure # <<>>
                     /\ raw.course_structure[1].course # <<>>
                  THEN raw.course_structure[1].course
                  ELSE raw.actualCourse
    IN raw.modules = None /\ (nested # <<>> => nested[1].modules = None)

\* C9 as claimed: for every raw course without modules extractCourseData
\* returns modules = [] and modules_count = 0, and it returns a Course for
\* every payload.
C9_NoModulesZeroCount ==
    Extracted
    => /\ normCourse[1] # None
       /\ (NoModulesAnywhere
           => /\ normCourse[1][1].modules = <<>>
              /\ normCourse[1][1].modules_count = 0)
\* C9 as amended: for every raw course without modules extractCourseData
\* returns modules = [] and modules_count = the non-zero modules_count the
\* backend supplies, 0 when it supplies none; it returns a Course for every
\* payload and null for a null input.
C9_NoModulesSuppliedCount ==
    normCourse # None
    => IF rawCourse = None THEN normCourse[1] = None
       ELSE /\ normCourse[1] # None
            /\ (NoModulesRead
                => /\ normCourse[1][1].modules = <<>>
                   /\ normCourse[1][1].modules_count
                        = IF rawCourse[1].modules_count \in {None, Some(0)}
                          THEN 0 ELSE rawCourse[1].modules_count[1])
\* a raw course without modules whose modules_count is 4 has been
\* normalized to modules = [] and modules_count = 4
C9_Witness ==
    /\ Extracted /\ NoModulesAnywhere
    /\ rawCourse[1].modules_count = Some(4)
    /\ normCourse[1][1].modules = <<>>
    /\ normCourse[1][1].modules_count = 4

\* C10: the normalized modules_count (flashcards_count) is the count the
\* backend supplies when it supplies one (a non-zero one), and otherwise the
\* length of the normalized modules (flashcards) list of the same Course.
C10_CountsMatchLists ==
    (Extracted /\ normCourse[1] # None)
    => LET raw == rawCourse[1]
           course == normCourse[1][1]
       IN /\ course.modules_count
                = IF raw.modules_count \in {None, Some(0)}
                  THEN Len(course.modules) ELSE raw.modules_count[1]
          /\ course.flashcards_count
                = IF raw.flashcards_count \in {None, Some(0)}
                  THEN Len(course.flashcards) ELSE raw.flashcards_count[1]

\* the fields C11 names, with their fixed defaults
CourseDefaults ==
    [title |-> "Untitled Course",
     description |-> "No description available",
     difficulty |-> "intermediate",
     estimated_duration |-> "Unknown",
     modules |-> <<>>,
     flashcards |-> <<>>]
\* the first present of raw.course_structure.course, raw.actualCourse, raw
NestedPayloadOf(raw) ==
    IF raw.course_structure # None /\ raw.course_structure[1].course # None
    THEN raw.course_structure[1].course[1]
    ELSE IF raw.actualCourse # None THEN raw.actualCourse[1]
    ELSE raw
\* the display strings among them
TextFields == {"title", "description", "difficulty", "estimated_duration"}
\* field f of payload p holds a value that is not the empty string
NonEmptyValue(p, f) ==
    IF f \in TextFields THEN p[f] # None /\ p[f][1] # "" ELSE p[f] # None

\* C11 as claimed: every named field of the result is the nested payload's
\* value when present, else raw's own value when present, else the default.
C11_PresentValueWins ==
    (Extracted /\ normCourse[1] # None)
    => LET raw == rawCourse[1]
           nested == NestedPayloadOf(raw)
       IN \A f \in DOMAIN CourseDefaults :
             normCourse[1][1][f]
               = IF nested[f] # None THEN nested[f][1]
                 ELSE IF raw[f] # None THEN raw[f][1]
                 ELSE CourseDefaults[f]
\* C11 as amended: every named field of the result is the nested payload's
\* value when present and not the empty string, else raw's own value when
\* present and not the empty string, else the default.
C11_NonEmptyValueWins ==
    (Extracted /\ normCourse[1] # None)
    => LET raw == rawCourse[1]
           nested == NestedPayloadOf(raw)
       IN \A f \in DOMAIN CourseDefaults :
             normCourse[1][1][f]
               = IF NonEmptyValue(nested, f) THEN nested[f][1]
                 ELSE IF NonEmptyValue(raw, f) THEN raw[f][1]
                 ELSE CourseDefaults[f]
\* a raw course with an actualCourse payload and no course_structure.course
\* has been normalized: the description comes from actualCourse, the
\* difficulty, missing there, from the raw course itself
C11_Witness ==
    /\ Extracted
    /\ rawCourse[1].course_structure = Some([course |-> None])
    /\ rawCourse[1].actualCourse # None
    /\ rawCourse[1].actualCourse[1].description = Some("Actual")
    /\ rawCourse[1].actualCourse[1].modules = None
    /\ rawCourse[1].description = Some("Own")
    /\ rawCourse[1].modules = Some(ModuleList(1, 20))
    /\ normCourse[1][1].description = "Actual"
    /\ normCourse[1][1].modules = ModuleList(1, 20)

\* every fetchCourses call started so far has completed
StoreQuiet == calls # <<>> /\ \A i \in 1..Len(calls) : calls[i].stage = "done"
\* the call that completed last
LastResolved == CHOOSE i \in 1..Len(calls) : calls[i].order = CallsDone

\* C12: once the course listing has ended and the call that ended last met
\* a network failure, courses is exactly the one-course mock dataset, error
\* is a non-empty string and loading is false.
C12_NetworkFailureGivesMockAndError ==
    (StoreQuiet /\ calls[LastResolved].network)
    => /\ courses = getMockCourses
       /\ Len(courses) = 1
       /\ storeError # ""
       /\ storeLoading = FALSE

\* a call of method fn has ended
Ended(fn) == apiResult # None /\ apiResult[1].fn = fn
\* the request of the call met a network failure or a non-2xx status
RequestFailed == apiCall[1].outcome.kind \in {"network", "http"}
\* the call returned {success: false, error: <a non-empty string>}
ReturnedFailure ==
    /\ apiResult[1].result.kind = "returned"
    /\ apiResult[1].result.value.success = Some(FALSE)
    /\ apiResult[1].result.value.error \notin {None, Some("")}
\* the course id carries the prefix mock_
IsMockId(id) ==
    Len(id) >= 5 /\ id[1] = "m" /\ id[2] = "o" /\ id[3] = "c" /\ id[4] = "k"
                 /\ id[5] = "_"

\* C13: getCourseById(id) returns the mock course without a request for an
\* id with the prefix mock_; for any other id it issues one request and
\* returns the normalized backend course when the response is successful
\* and carries a course, the mock course otherwise; it never throws and
\* never returns null.
C13_GetCourseById ==
    Ended("getCourseById")
    => LET id == apiCall[1].courseId
           outcome == apiCall[1].outcome
           result == apiResult[1].result
           successful == /\ outcome.kind = "ok"
                         /\ outcome.body.success = Some(TRUE)
                         /\ outcome.body.course # None
       IN /\ result.kind = "returned"
          /\ result.value # None
          /\ IF IsMockId(id)
             THEN /\ apiResult[1].requests = 0
                  /\ result.value = Some(MockCourse)
             ELSE /\ apiResult[1].requests = 1
                  /\ result.value = IF successful
                                    THEN extractCourseData(outcome.body.course)
                                    ELSE Some(MockCourse)
\* getCourseById('mock_7') has returned the mock course without a request,
\* where the backend would have answered with a course
C13_Witness ==
    /\ Ended("getCourseById")
    /\ apiCall[1].courseId = <<"m", "o", "c", "k", "_", "7">>
    /\ apiCall[1].outcome.kind = "ok"
    /\ apiCall[1].outcome.body.course = Some(BackendCourseA)
    /\ apiResult[1].requests = 0
    /\ apiResult[1].result = Returned(Some(MockCourse))

\* C14: once all overlapping fetchCourses calls have resolved, the cached
\* collection is the result of the call that resolved last, whichever call
\* was started last.
C14_LastResolvedWins ==
    StoreQuiet => courses = calls[LastResolved].result[1]
\* two calls overlapped, the one started second resolved first, and the
\* collection holds the result of the one started first, which differs
C14_Witness ==
    /\ StoreQuiet
    /\ Len(calls) = 2
    /\ calls[2].order = 1 /\ calls[1].order = 2
    /\ calls[1].result # calls[2].result
    /\ calls[2].result = Some(getMockCourses)
    /\ Len(calls[1].result[1]) = 2
    /\ courses = calls[1].result[1]

CatchingMethods ==
    {"getRecentCourses", "getCourse", "getCourseByContentId",
     "getQuizData", "getFlashcardsData"}
\* the methods of the API service that let the failure through
ThrowingMethods ==
    {"uploadFile", "saveProgress", "getDebugInfo", "getDatabaseStats",
     "healthCheck"}
PersistedStudied == StoredIds(localStorage.studied)

\* C16: marking a card that is already studied leaves the size of the
\* studied set unchanged, in memory and as persisted, and no step other
\* than resetProgress removes an id from either.
C16_MarkStudiedIdempotentMonotonic ==
    [][/\ (cardOp' \in {"studied", "studiedAgain"}
           /\ currentCardId # None /\ currentCardId[1] \in studiedCards)
          => /\ Cardinality(studiedCards') = Cardinality(studiedCards)
             /\ Cardinality(PersistedStudied') = Cardinality(PersistedStudied)
       /\ cardOp' # "reset"
          => /\ studiedCards \subseteq studiedCards'
             /\ PersistedStudied \subseteq PersistedStudied']_vars
\* a card that was studied has been marked again: it is the current card,
\* and both studied sets hold the same two ids
C16_Witness ==
    /\ cardOp = "studiedAgain"
    /\ currentCardId # None /\ currentCardId[1] \in studiedCards
    /\ Cardinality(studiedCards) = 2
    /\ localStorage.studied = Some(studiedCards)

\* C17 as claimed: after a study mode button the pointer lies within
\* [0, filteredFlashcards.length) of the new mode.
C17_ModeSwitchInRange ==
    [][cardOp' = "mode"
       => currentCard' >= 0 /\ currentCard' < Len(filteredFlashcards')]_vars
\* C17 as amended: after a study mode button the pointer is 0, which lies
\* within [0, filteredFlashcards.length) of the new mode whenever that deck
\* is not empty.
C17_ModeSwitchToZero ==
    [][cardOp' = "mode"
       => /\ currentCard' = 0
          /\ Len(filteredFlashcards') > 0
                => currentCard' < Len(filteredFlashcards')]_vars
\* a study mode button was pressed with the pointer on the second card:
\* the filtered deck of the new mode has one card, the pointer is on it
C17_Witness ==
    /\ cardOp = "mode" /\ cardBefore = 1
    /\ studyMode = "unstudied"
    /\ Len(flashcards) = 2 /\ Len(filteredFlashcards) = 1
    /\ currentCard = 0 /\ currentFlashcard # None

\* C18: after resetProgress the studied count is 0 and neither
\* studied_{courseId} nor difficult_{courseId} is in localStorage.
C18_ResetClears ==
    [][cardOp' = "reset"
       => /\ Cardinality(studiedCards') = 0
          /\ localStorage'.studied = None
          /\ localStorage'.difficult = None]_vars
\* resetProgress has run on a deck of two cards, in the mode of the
\* unstudied cards: nothing is studied, nothing is persisted, and the
\* filtered deck is the whole deck again
C18_Witness ==
    /\ cardOp = "reset"
    /\ studyMode = "unstudied"
    /\ Len(flashcards) = 2 /\ Len(filteredFlashcards) = 2
    /\ studiedCards = {}
    /\ localStorage = [studied |-> None, difficult |-> None]

\* C19: nextCard and prevCard move the pointer by one modulo the size of
\* the filtered deck (from the last card to 0, from 0 to the last card),
\* prevCard after nextCard from a card of the deck returns to that card,
\* and every navigation leaves the card on its front.
C19_CircularNavigation ==
    [][LET length == Len(filteredFlashcards)
       IN /\ cardOp' = "next"
             => /\ currentCard' = (currentCard + 1) % length
                /\ (currentCard = length - 1 => currentCard' = 0)
          /\ cardOp' = "prev"
             => /\ currentCard' = (currentCard - 1 + length) % length
                /\ (currentCard = 0 => currentCard' = length - 1)
          /\ (cardOp = "next" /\ cardOp' = "prev" /\ cardBefore < length)
             => currentCard' = cardBefore
          /\ cardOp' \in {"next", "prev", "shuffle", "mode"}
             => isFlipped' = FALSE
          /\ (cardOp' = "pick" /\ currentCard' # currentCard)
             => isFlipped' = FALSE]_vars
\* prevCard has run on the first of two cards: the pointer is on the last
\* card, front side up
C19_Witness ==
    /\ cardOp = "prev" /\ cardBefore = 0
    /\ Len(filteredFlashcards) = 2
    /\ currentCard = 1
    /\ isFlipped = FALSE

\* C20: every time fetchQuizData delivers a quiz (real or fallback), also
\* on a later run of the fetch effect while the page stays mounted, the
\* session starts at question 0.
C20_LoadStartsAtZero ==
    [][lastOp' = "fetchDone" => (quiz' # None /\ currentQuestion' = 0)]_vars

\* the quiz is loaded and not completed
InProgress == quiz # None /\ ~quizCompleted

\* C21: a timer tick of an in-progress quiz decrements timeLeft by exactly
\* 1, no other step of a session in progress changes timeLeft, timeLeft is
\* never negative and never 0 while the quiz is in progress (so at most
\* timeLeft ticks fit before completion), and while the timer keeps firing
\* every in-progress session reaches Completed.
C21_CountdownCompletes ==
    /\ [](timeLeft >= 0 /\ (InProgress => timeLeft > 0))
    /\ [][InProgress
          => /\ lastOp' = "tick" => timeLeft' = timeLeft - 1
             /\ lastOp' # "tick" => timeLeft' = timeLeft]_vars
    /\ (InProgress ~> quizCompleted)
\* the countdown of the comprehensive quiz has run out with no question
\* answered: the quiz is completed at timeLeft 0
C21_Witness ==
    /\ lastOp = "tick" /\ quizCompleted /\ timeLeft = 0
    /\ quiz # None /\ quiz[1].timeLimit = ComprehensiveTimeLimit
    /\ answers = <<>> /\ selectedAnswer = None

\* C22: from a completed quiz the only steps are Retake and the steps of a
\* new load: no answer selection, advance, go-back, completion or timer tick
\* takes place, so none changes currentQuestion, the recorded answers,
\* timeLeft or the score; only Retake ends Completed, and a load step leaves
\* currentQuestion and the recorded answers as they are.
C22_CompletedTerminal ==
    [][quizCompleted
       => /\ lastOp' \in {"retake", "fetchStart", "fetchDone"}
          /\ lastOp' # "retake"
                => /\ quizCompleted'
                   /\ currentQuestion' = currentQuestion
                   /\ answers' = answers
          /\ lastOp' \notin {"retake", "fetchDone"}
                => /\ timeLeft' = timeLeft
                   /\ calculateScore' = calculateScore]_vars
\* the quiz was completed with its button on the last question while the
\* countdown still had time left and a selection was pending
C22_Witness ==
    /\ lastOp = "complete" /\ quizCompleted /\ CompletedView
    /\ timeLeft > 0 /\ TruthyS(selectedAnswer)
    /\ Len(Questions) = 2 /\ currentQuestion = 1
    /\ Len(answers) = 2 /\ answers[1] # <<>> /\ answers[2] # <<>>

\* a fetchCourses call has started and has not completed
CallInFlight == \E i \in 1..Len(calls) : calls[i].stage # "done"

\* C23: whenever a fetchCourses call is in flight the provider's loading
\* flag is true, also when calls overlap.
C23_LoadingWhileInFlight == CallInFlight => storeLoading

\* C24: every Quiz a quiz-building operation produces has totalQuestions
\* equal to the number of its questions.
C24_TotalMatchesQuestions ==
    builtQuiz # None
    => builtQuiz[1].quiz.totalQuestions = Len(builtQuiz[1].quiz.questions)

\* the flashcards of a raw course: those of its nested payload when it has
\* any, else its own
RawFlashcards(raw) ==
    IF NestedPayloadOf(raw).flashcards # None
    THEN NestedPayloadOf(raw).flashcards
    ELSE raw.flashcards

\* C25: the deck the flashcards page presents for a raw course is the
\* course's flashcards array, unchanged, when it has one, and the five-card
\* sample deck when it has none.
C25_DeckOrSample ==
    (cardOp = "fetchDone" /\ rawCourse # None)
    => flashcards = IF RawFlashcards(rawCourse[1]) # None
                    THEN RawFlashcards(rawCourse[1])[1]
                    ELSE getMockFlashcards

\* the cards of a deck
CardsOf(deck) == {deck[i] : i \in 1..Len(deck)}

\* C26: in every study mode shuffleCards leaves the full deck with exactly
\* the cards it held before, in some order, and sets the pointer to 0.
C26_ShuffleKeepsDeck ==
    [][cardOp' = "shuffle"
       => /\ CardsOf(flashcards') = CardsOf(flashcards)
          /\ Len(flashcards') = Len(flashcards)
          /\ currentCard' = 0]_vars

\* C27: during a visit of the flashcards page, after any sequence of its
\* operations, whenever the filtered deck is not empty the pointer lies within [0, filteredFlashcards.length), so that a current
\* card is defined.
C27_PointerInRange ==
    (CardsView /\ Len(filteredFlashcards) > 0)
    => /\ currentCard >= 0 /\ currentCard < Len(filteredFlashcards)
       /\ currentFlashcard # None

\* C28: whenever the page shows a question of a quiz in progress, the
\* explanation is visible only if an answer is selected for that question.
C28_ExplanationNeedsSelection ==
    (QuestionView /\ showExplanation) => TruthyS(selectedAnswer)

\* every module of the displayed course is marked complete
AllModulesComplete ==
    \A i \in 1..Len(getModules) :
        getModuleProgress(moduleNumberAt(i - 1)) = 100

\* C29: whenever the course viewer displays a course, the overall progress
\* is an integer of 0..100, and for a course with modules it is 100 exactly
\* when every module of the course is marked complete.
C29_OverallProgress ==
    ViewerView
    => /\ getOverallProgress \in 0..100
       /\ Len(getModules) > 0
            => (getOverallProgress = 100 <=> AllModulesComplete)

\* C30: after an upload attempt fails (uploadFile throws or the result has
\* success = false), uploadProgress is 0, isUploading is false and an error
\* message is set, and until the next upload is started uploadProgress stays
\* 0: no run of the simulated-progress timer changes it.
C30_FailedUploadStaysAtZero ==
    /\ [](upload.op = "failed"
          => /\ upload.uploadProgress = 0
             /\ ~upload.isUploading
             /\ upload.error # "")
    /\ [](upload.failed => upload.uploadProgress = 0)
    /\ [][(upload.failed /\ upload'.op = "tick")
          => upload'.uploadProgress = upload.uploadProgress]_vars

====
